---------------------------- MODULE Spec2Model ----------------------------
(***************************************************************************)
(* usb-oxide: a bare-metal xHCI/USB stack.                                 *)
(*                                                                         *)
(* The model covers the ring layer (producer rings with a Link TRB, the    *)
(* event ring and its hardware producer), the controller's event polling   *)
(* and UsbDevice::control_transfer.                                        *)
(*                                                                         *)
(* A TRB is a record [param, status, control].  `status` and `control` are *)
(* the 32-bit words of the hardware layout; `param` is the 64-bit          *)
(* parameter kept as its two little-endian dwords <<lo, hi>>.              *)
(***************************************************************************)
EXTENDS Integers, Sequences, FiniteSets, TLC

VARIABLES
    cmd_ring,     \* XhciCtrl.cmd_ring: the command ring (a producer ring)
    enq_log,      \* ghost: what the last enqueue on the command ring was given
    enq_count,    \* ghost: number of enqueues on the command ring so far
    link_toggles, \* ghost: number of times the command ring's Link cycle bit changed
    event_ring,   \* XhciCtrl.event_ring: slots, dequeue_index, cycle (CCS)
    erdp,         \* the interrupter-0 ERDP register
    hw_evt,       \* the controller hardware's event producer: index, cycle, wraps
    deq_log,      \* ghost: what the last poll_event saw and returned
    ccs_toggles,  \* ghost: number of times the consumer toggled CCS
    ep0_ring,     \* UsbDevice.ep0_ring: the EP0 transfer ring (a producer ring)
    ep0_lock,     \* holder of the ep0_ring mutex (0 = free)
    pc,           \* per context: position inside control_transfer
    call,         \* per context: arguments, locals and result of control_transfer
    doorbells,    \* doorbell writes so far, <<slot, target>> each
    dma,          \* DMA memory of the platform bridge: live buffers and contents
    hw_ep0,       \* the controller hardware's consumer state on the EP0 ring
    ctor,         \* XhciCtrl::new / init in progress: position, locals, result
    host,         \* the platform bridge's MMIO mappings
    regs,         \* capability and operational registers of the controller
    hw_log,       \* ghost: MMIO accesses and bridge calls of new / init, in order
    cmd_lock,     \* holder of the cmd_ring mutex (0 = free)
    sc,           \* per context: position, locals and result of submit_command
    hw_cmd,       \* the controller hardware's consumer state on the command ring
    dn,           \* UsbDevice::new in progress: position, locals, result
    dcbaa,        \* the Device Context Base Address Array, by slot
    portsc,       \* the PORTSC register of the device's port
    port_log,     \* ghost: reads and writes of PORTSC, in order
    cf,           \* per context: position, locals and result of configure_endpoint
    ep_rings,     \* UsbDevice.ep_rings: the endpoint rings, by ring index
    qt,           \* per context: position, locals and result of queue_transfer
    iv,           \* ghost: the last interval conversion, input and result
    lk,           \* the mutexes as the operations take and drop them: owners, call stacks
    drv           \* the class drivers: MscDevice::scsi_command, the transfer waiters

vars == <<cmd_ring, enq_log, enq_count, link_toggles, event_ring, erdp, hw_evt,
          deq_log, ccs_toggles, ep0_ring, ep0_lock, pc, call, doorbells, dma,
          hw_ep0, ctor, host, regs, hw_log, cmd_lock, sc, hw_cmd, dn, dcbaa,
          portsc, port_log, cf, ep_rings, qt, iv, lk, drv>>

ringVars == <<cmd_ring, enq_log, enq_count, link_toggles>>
evtVars  == <<event_ring, erdp, hw_evt, deq_log, ccs_toggles>>
devVars  == <<ep0_ring, ep0_lock, pc, call, doorbells, dma, hw_ep0>>
newVars  == <<ctor, host, regs, hw_log>>
cmdVars  == <<cmd_lock, sc, hw_cmd, dn, dcbaa, portsc, port_log>>
epVars   == <<cf, ep_rings, qt, iv, lk, drv>>

\* what the ring, event and transfer operations leave alone
ctlVars   == <<newVars, cmdVars, epVars>>
\* what controller construction leaves alone
exceptNew == <<ringVars, evtVars, devVars, cmdVars, epVars>>

---------------------------------------------------------------------------
(* Bounds of the model *)

RingN     == 4   \* capacity of the command ring (256 in the program)
MaxEnq    == 9   \* enqueues on the command ring per behaviour
EvtN      == 3   \* slots of the event ring (256 in the program)
Ep0N      == 4   \* capacity of the EP0 ring (256 in the program)
MaxLen    == 2   \* largest wLength, caller buffer length and event residual
MaxCalls  == 1   \* control_transfer calls per behaviour
MaxCmds   == 1   \* submit_command calls of the second context per behaviour
MaxStray  == 1   \* events of other kinds posted while commands are awaited
MaxXfers  == 2   \* control_transfer calls per behaviour when contexts run side by side

---------------------------------------------------------------------------
(* 32-bit word arithmetic *)

\* four bits at a time, so that a 32-bit word takes eight steps
And4(x, y) ==
    ((x % 2) * (y % 2))
    + 2 * (((x \div 2) % 2) * ((y \div 2) % 2))
    + 4 * (((x \div 4) % 2) * ((y \div 4) % 2))
    + 8 * ((x \div 8) * (y \div 8))

Or4(x, y) == x + y - And4(x, y)

RECURSIVE BitOr(_, _)
BitOr(a, b) ==
    IF a = 0 THEN b
    ELSE IF b = 0 THEN a
    ELSE Or4(a % 16, b % 16) + 16 * BitOr(a \div 16, b \div 16)

RECURSIVE BitAnd(_, _)
BitAnd(a, b) ==
    IF a = 0 \/ b = 0 THEN 0
    ELSE And4(a % 16, b % 16) + 16 * BitAnd(a \div 16, b \div 16)

Shl(a, n) == a * (2 ^ n)
Shr(a, n) == a \div (2 ^ n)

\* x & !1
ClearBit0(x) == x - (x % 2)

---------------------------------------------------------------------------
(* ring::trb_type, ring::completion and the TRB accessors *)

SETUP              == 2
DATA               == 3
STATUS             == 4
LINK               == 6
ENABLE_SLOT        == 9
DISABLE_SLOT       == 10
ADDRESS_DEVICE     == 11
CONFIGURE_ENDPOINT == 12
NORMAL             == 1
TRANSFER_EVENT     == 32
COMMAND_COMPLETION == 33

SUCCESS      == 1
STALL_ERROR  == 6
SHORT_PACKET == 13

ZeroTrb == [param |-> <<0, 0>>, status |-> 0, control |-> 0]

CycleBit(trb)       == trb.control % 2
TrbType(trb)        == BitAnd(Shr(trb.control, 10), 63)
CompletionCode(trb) == BitAnd(Shr(trb.status, 24), 255)
SlotId(trb)         == BitAnd(Shr(trb.control, 24), 255)
TransferLength(trb) == BitAnd(trb.status, 16777215)

None      == [some |-> FALSE, trb |-> ZeroTrb]
Some(trb) == [some |-> TRUE, trb |-> trb]

---------------------------------------------------------------------------
(* Producer ring: Ring::new, Ring::enqueue, Ring::phys *)

\* Physical base of DMA region number r
PhysBase(r) == r * 4096

LinkTrb(phys) ==
    [param |-> <<phys, 0>>, status |-> 0, control |-> BitOr(Shl(LINK, 10), Shl(1, 1))]

RingNew(n, phys) ==
    [size |-> n,
     phys |-> phys,
     slots |-> [i \in 0..(n - 1) |-> IF i = n - 1 THEN LinkTrb(phys) ELSE ZeroTrb],
     enqueue_index |-> 0,
     cycle |-> 1]

\* a plausible slip: the caller's cycle bit is written as supplied
EnqueueKeepCycle(r, trb) ==
    LET s1 == [r.slots EXCEPT ![r.enqueue_index] = trb]
        ni == r.enqueue_index + 1
    IN  IF ni = r.size - 1
        THEN [r EXCEPT !.slots = [s1 EXCEPT ![r.size - 1].control =
                                      BitOr(ClearBit0(@), r.cycle)],
                       !.enqueue_index = 0,
                       !.cycle = 1 - r.cycle]
        ELSE [r EXCEPT !.slots = s1, !.enqueue_index = ni]

\* a plausible slip: the wrap test is one too late, so the Link slot is used as
\* an ordinary slot
EnqueueOverLink(r, trb) ==
    LET t  == [trb EXCEPT !.control = BitOr(ClearBit0(trb.control), r.cycle)]
        s1 == [r.slots EXCEPT ![r.enqueue_index] = t]
        ni == r.enqueue_index + 1
    IN  IF ni = r.size
        THEN [r EXCEPT !.slots = s1, !.enqueue_index = 0, !.cycle = 1 - r.cycle]
        ELSE [r EXCEPT !.slots = s1, !.enqueue_index = ni]

\* a plausible slip: the Link TRB's cycle bit is not handed over on wrap
EnqueueStaleLink(r, trb) ==
    LET t  == [trb EXCEPT !.control = BitOr(ClearBit0(trb.control), r.cycle)]
        s1 == [r.slots EXCEPT ![r.enqueue_index] = t]
        ni == r.enqueue_index + 1
    IN  IF ni = r.size - 1
        THEN [r EXCEPT !.slots = s1, !.enqueue_index = 0, !.cycle = 1 - r.cycle]
        ELSE [r EXCEPT !.slots = s1, !.enqueue_index = ni]

Enqueue(r, trb) ==
    LET t  == [trb EXCEPT !.control = BitOr(ClearBit0(trb.control), r.cycle)]
        s1 == [r.slots EXCEPT ![r.enqueue_index] = t]
        ni == r.enqueue_index + 1
    IN  IF ni = r.size - 1
        THEN [r EXCEPT !.slots = [s1 EXCEPT ![r.size - 1].control =
                                      BitOr(ClearBit0(@), r.cycle)],
                       !.enqueue_index = 0,
                       !.cycle = 1 - r.cycle]
        ELSE [r EXCEPT !.slots = s1, !.enqueue_index = ni]

RingPhys(r) == r.phys

---------------------------------------------------------------------------
(* Command ring: the enqueue step of XhciCtrl::submit_command *)

\* Command TRBs as enable_slot, disable_slot and UsbDevice::new build them,
\* with either value of the cycle bit in the caller's control word.
CommandTrbs ==
    { [param |-> <<0, 0>>, status |-> 0, control |-> BitOr(Shl(ty, 10), c)] :
          ty \in {ENABLE_SLOT, DISABLE_SLOT}, c \in {0, 1} }
    \cup
    { [param |-> <<PhysBase(3), 0>>, status |-> 0,
       control |-> BitOr(BitOr(Shl(ADDRESS_DEVICE, 10), Shl(1, 24)), c)] : c \in {0, 1} }

CmdEnqueue(trb) ==
    /\ enq_count < MaxEnq
    /\ cmd_ring' = Enqueue(cmd_ring, trb)
    /\ enq_log' = [trb |-> trb, at |-> cmd_ring.enqueue_index, pcs |-> cmd_ring.cycle]
    /\ enq_count' = enq_count + 1
    /\ link_toggles' = link_toggles +
           (IF CycleBit(cmd_ring'.slots[cmd_ring.size - 1])
                 # CycleBit(cmd_ring.slots[cmd_ring.size - 1]) THEN 1 ELSE 0)
    /\ UNCHANGED <<evtVars, devVars, ctlVars>>


---------------------------------------------------------------------------
(* Event ring: EventRing::new, try_dequeue, dequeue_ptr *)

EventRingNew(n, phys) ==
    [size |-> n,
     phys |-> phys,
     slots |-> [i \in 0..(n - 1) |-> ZeroTrb],
     dequeue_index |-> 0,
     cycle |-> 1]

\* a plausible slip: the index wraps but CCS is not toggled
TryDequeueNoToggle(er) ==
    LET trb == er.slots[er.dequeue_index]
        ni  == er.dequeue_index + 1
    IN  IF CycleBit(trb) # er.cycle
        THEN [ret |-> None, ring |-> er]
        ELSE [ret |-> Some(trb),
              ring |-> [er EXCEPT !.dequeue_index = IF ni >= er.size THEN 0 ELSE ni]]

\* a plausible slip: the ownership test is dropped and the slot is always taken
TryDequeueAlways(er) ==
    LET trb == er.slots[er.dequeue_index]
        ni  == er.dequeue_index + 1
    IN  [ret |-> Some(trb),
         ring |-> IF ni >= er.size
                  THEN [er EXCEPT !.dequeue_index = 0, !.cycle = 1 - er.cycle]
                  ELSE [er EXCEPT !.dequeue_index = ni]]

TryDequeue(er) ==
    LET trb == er.slots[er.dequeue_index]
        ni  == er.dequeue_index + 1
    IN  IF CycleBit(trb) # er.cycle
        THEN [ret |-> None, ring |-> er]
        ELSE [ret |-> Some(trb),
              ring |-> IF ni >= er.size
                       THEN [er EXCEPT !.dequeue_index = 0, !.cycle = 1 - er.cycle]
                       ELSE [er EXCEPT !.dequeue_index = ni]]

DequeuePtr(er) == er.phys + 16 * er.dequeue_index

---------------------------------------------------------------------------
(* Controller: update_erdp and poll_event *)

\* the value update_erdp writes to ERDP for event ring er
ErdpValue(er) == BitOr(DequeuePtr(er), 8)

\* poll_event: try_dequeue under the event-ring lock, then update_erdp when an
\* event was taken.  Yields the returned option, the ring and ERDP afterwards.
PollEventResult(er, reg) ==
    LET d == TryDequeue(er)
    IN  [ret |-> d.ret,
         ring |-> d.ring,
         erdp |-> IF d.ret.some THEN ErdpValue(d.ring) ELSE reg]

PollEvent ==
    LET r == PollEventResult(event_ring, erdp)
    IN  /\ event_ring' = r.ring
        /\ erdp' = r.erdp
        /\ deq_log' = [tick |-> 1 - deq_log.tick, ret |-> r.ret]
        /\ ccs_toggles' = ccs_toggles + (IF r.ring.cycle # event_ring.cycle THEN 1 ELSE 0)
        /\ UNCHANGED <<hw_evt, ringVars, ctlVars, devVars>>

---------------------------------------------------------------------------
(* The controller hardware as event producer *)

\* slot index the ERDP register points at
ErdpIndex == (erdp - (erdp % 16) - event_ring.phys) \div 16

HwNext(i) == IF i + 1 >= event_ring.size THEN 0 ELSE i + 1

\* the hardware keeps one slot free: it does not advance onto the slot ERDP names
HwCanPost == HwNext(hw_evt.index) # ErdpIndex

MaxHwWraps == 2 * EvtN

EventTrb(ty, slot, code, residual) ==
    [param |-> <<0, 0>>,
     status |-> BitOr(Shl(code, 24), residual),
     control |-> BitOr(Shl(ty, 10), Shl(slot, 24))]

HwWrite(evt) ==
    LET i == hw_evt.index
        w == HwNext(i) = 0
    IN  /\ event_ring' = [event_ring EXCEPT
              !.slots[i] = [evt EXCEPT !.control = BitOr(ClearBit0(evt.control), hw_evt.cycle)]]
        /\ hw_evt' = [index |-> HwNext(i),
                      cycle |-> IF w THEN 1 - hw_evt.cycle ELSE hw_evt.cycle,
                      wraps |-> hw_evt.wraps + (IF w THEN 1 ELSE 0)]

HwPost(evt) ==
    /\ HwCanPost
    /\ hw_evt.wraps < MaxHwWraps
    /\ HwWrite(evt)
    /\ UNCHANGED <<erdp, deq_log, ccs_toggles, ringVars, ctlVars, devVars>>

\* every produced event has been consumed: the producer never fills the ring
\* (HwCanPost), so equal indices mean an empty ring
Drained == event_ring.dequeue_index = hw_evt.index

---------------------------------------------------------------------------
(* Device: UsbDevice::control_transfer *)

\* the contexts (threads of the embedder) that may call into the driver
Ctx == {1, 2}

\* the addressed device the contexts share
Device == [slot_id |-> 1, port |-> 0]

\* DMA regions the bridge hands out for data buffers
BufIds == {5, 6}

\* byte i of what the caller's buffer holds before the call, of what the
\* device sends in an IN data stage, and of memory nobody has written
CallerByte(i) == 10 + i
DeviceByte(i) == 20 + i
Uninit        == 0 - 1

Min(a, b) == IF a < b THEN a ELSE b

SetupPackets ==
    [request_type : {0, 128}, request : {6}, value : {0}, index : {0},
     length : 0..MaxLen]

\* Option<&mut [u8]>: absent, or a slice of 0..MaxLen bytes
DataArgs ==
    {[some |-> FALSE, bytes |-> <<>>]} \cup
    {[some |-> TRUE, bytes |-> [i \in 1..n |-> CallerByte(i)]] : n \in 0..MaxLen}

NoRet == [kind |-> "none", n |-> 0]

Idle == [setup |-> [request_type |-> 0, request |-> 0, value |-> 0, index |-> 0,
                    length |-> 0],
         data |-> [some |-> FALSE, bytes |-> <<>>],
         data_dir |-> FALSE, data_len |-> 0, data_buf |-> 0,
         emitted |-> <<>>, ats |-> <<>>, rang |-> 0, frees |-> 0, evt |-> ZeroTrb,
         ptr |-> 0, dropped |-> <<>>,
         other |-> FALSE, start |-> [idx |-> 0, pcs |-> 1],
         ret |-> NoRet]

\* *(setup as *const SetupPacket as *const u64): the packed little-endian bytes
SetupParam(setup) ==
    << BitOr(BitOr(setup.request_type, Shl(setup.request, 8)), Shl(setup.value, 16)),
       BitOr(setup.index, Shl(setup.length, 16)) >>

SetupTrb(c) ==
    [param |-> SetupParam(c.setup),
     status |-> 8,
     control |-> BitOr(BitOr(Shl(SETUP, 10), Shl(1, 6)),
                       IF c.data_len > 0 /\ c.setup.length > 0
                       THEN (IF c.data_dir THEN Shl(3, 16) ELSE Shl(2, 16))
                       ELSE 0)]

DataTrb(c) ==
    [param |-> <<PhysBase(c.data_buf), 0>>,
     status |-> c.setup.length,
     control |-> BitOr(BitOr(Shl(DATA, 10), IF c.data_dir THEN Shl(1, 16) ELSE 0),
                       Shl(1, 5))]

StatusTrb(c) ==
    [param |-> <<0, 0>>,
     status |-> 0,
     control |-> BitOr(BitOr(Shl(STATUS, 10),
                             IF c.data_len > 0 /\ c.setup.length > 0 /\ c.data_dir
                             THEN 0 ELSE Shl(1, 16)),
                       Shl(1, 5))]

\* lines 220-224: take the EP0 lock, derive data_dir and data_len
CtLock(t, setup, data) ==
    /\ pc[t] = "idle"
    /\ ep0_lock = 0
    /\ ep0_lock' = t
    /\ call' = [call EXCEPT ![t] =
           [Idle EXCEPT !.setup = setup,
                        !.data = data,
                        !.data_dir = BitAnd(setup.request_type, 128) # 0,
                        !.data_len = IF data.some THEN Len(data.bytes) ELSE 0,
                        !.start = [idx |-> ep0_ring.enqueue_index,
                                   pcs |-> ep0_ring.cycle]]]
    /\ pc' = [pc EXCEPT ![t] = "locked"]
    /\ dma' = [dma EXCEPT !.calls = @ + 1]
    /\ UNCHANGED <<ep0_ring, doorbells, hw_ep0, ringVars, ctlVars, evtVars>>

\* lines 228-241, data_len = 0: no buffer
CtNoBuffer(t) ==
    /\ pc[t] = "locked"
    /\ call[t].data_len = 0
    /\ pc' = [pc EXCEPT ![t] = "setup"]
    /\ UNCHANGED <<ep0_ring, ep0_lock, call, doorbells, dma, hw_ep0, ringVars, ctlVars, evtVars>>

\* lines 228-241, data_len > 0 and PhysMem::alloc succeeds; OUT data is copied in
CtAllocOk(t) ==
    /\ pc[t] = "locked"
    /\ call[t].data_len > 0
    /\ BufIds \ dma.live # {}
    /\ LET b == CHOOSE x \in BufIds \ dma.live : \A y \in BufIds \ dma.live : x <= y
       IN /\ dma' = [dma EXCEPT
                 !.live = @ \cup {b},
                 !.mem[b] = IF call[t].data_dir
                            THEN [i \in 1..call[t].data_len |-> Uninit]
                            ELSE call[t].data.bytes]
          /\ call' = [call EXCEPT ![t].data_buf = b]
    /\ pc' = [pc EXCEPT ![t] = "setup"]
    /\ UNCHANGED <<ep0_ring, ep0_lock, doorbells, hw_ep0, ringVars, ctlVars, evtVars>>

\* a plausible slip: the buffer is allocated only after the Setup TRB has been
\* enqueued, so a failed allocation leaves that TRB in the ring
CtAllocFailAfterSetup(t) ==
    /\ pc[t] = "locked"
    /\ call[t].data_len > 0
    /\ ep0_ring' = Enqueue(ep0_ring, SetupTrb(call[t]))
    /\ call' = [call EXCEPT ![t].ret = [kind |-> "OoRam", n |-> 0],
                            ![t].emitted = Append(@, SetupTrb(call[t]))]
    /\ ep0_lock' = 0
    /\ pc' = [pc EXCEPT ![t] = "done"]
    /\ UNCHANGED <<doorbells, dma, hw_ep0, ringVars, ctlVars, evtVars>>

\* line 229, PhysMem::alloc fails: `?` returns the error and drops the guard
CtAllocFail(t) ==
    /\ pc[t] = "locked"
    /\ call[t].data_len > 0
    /\ call' = [call EXCEPT ![t].ret = [kind |-> "OoRam", n |-> 0]]
    /\ ep0_lock' = 0
    /\ pc' = [pc EXCEPT ![t] = "done"]
    /\ UNCHANGED <<ep0_ring, doorbells, dma, hw_ep0, ringVars, ctlVars, evtVars>>

\* physical address of the EP0 ring slot the next enqueue fills
Ep0EnqueueAddr == RingPhys(ep0_ring) + 16 * ep0_ring.enqueue_index

\* a plausible slip: the guard is dropped after each enqueue and taken again
\* for the next
CtSetupUnlock(t) ==
    /\ pc[t] = "setup"
    /\ ep0_ring' = Enqueue(ep0_ring, SetupTrb(call[t]))
    /\ call' = [call EXCEPT ![t].emitted = Append(@, SetupTrb(call[t])),
                            ![t].ats = Append(@, Ep0EnqueueAddr)]
    /\ ep0_lock' = 0
    /\ pc' = [pc EXCEPT ![t] = "data"]
    /\ UNCHANGED <<doorbells, dma, hw_ep0, ringVars, ctlVars, evtVars>>

\* lines 243-255
CtSetup(t) ==
    /\ pc[t] = "setup"
    /\ ep0_ring' = Enqueue(ep0_ring, SetupTrb(call[t]))
    /\ call' = [call EXCEPT ![t].emitted = Append(@, SetupTrb(call[t])),
                            ![t].ats = Append(@, Ep0EnqueueAddr)]
    /\ pc' = [pc EXCEPT ![t] = "data"]
    /\ UNCHANGED <<ep0_lock, doorbells, dma, hw_ep0, ringVars, ctlVars, evtVars>>

\* lines 257-267
CtData(t) ==
    /\ pc[t] = "data"
    /\ IF call[t].data_buf # 0
       THEN /\ ep0_ring' = Enqueue(ep0_ring, DataTrb(call[t]))
            /\ call' = [call EXCEPT ![t].emitted = Append(@, DataTrb(call[t])),
                                    ![t].ats = Append(@, Ep0EnqueueAddr)]
       ELSE UNCHANGED <<ep0_ring, call>>
    /\ pc' = [pc EXCEPT ![t] = "status"]
    /\ UNCHANGED <<ep0_lock, doorbells, dma, hw_ep0, ringVars, ctlVars, evtVars>>

\* lines 269-279: the Status TRB, then drop(ep0_ring)
CtStatus(t) ==
    /\ pc[t] = "status"
    /\ ep0_ring' = Enqueue(ep0_ring, StatusTrb(call[t]))
    /\ call' = [call EXCEPT ![t].emitted = Append(@, StatusTrb(call[t])),
                            ![t].ats = Append(@, Ep0EnqueueAddr)]
    /\ ep0_lock' = 0
    /\ pc' = [pc EXCEPT ![t] = "doorbell"]
    /\ UNCHANGED <<doorbells, dma, hw_ep0, ringVars, ctlVars, evtVars>>

\* The hardware's consumer side of the EP0 ring, which the doorbell starts
HwTrb == ep0_ring.slots[hw_ep0.index]

HwOwns == CycleBit(HwTrb) = hw_ep0.cycle

HwRunning == hw_ep0.armed /\ ~hw_ep0.halted

\* the hardware's position h brought to the next TRB it may execute: an owned
\* Link TRB is followed (toggling the cycle state when TC is set), and the
\* endpoint goes idle when the TRB it then faces is not owned by the hardware
Settle(h) ==
    LET trb == ep0_ring.slots[h.index]
        h1  == IF CycleBit(trb) = h.cycle /\ TrbType(trb) = LINK
               THEN [h EXCEPT
                       !.index = (trb.param[1] - RingPhys(ep0_ring)) \div 16,
                       !.cycle = IF BitAnd(Shr(trb.control, 1), 1) = 1 THEN 1 - @ ELSE @]
               ELSE h
    IN  [h1 EXCEPT !.armed = h.armed /\ CycleBit(ep0_ring.slots[h1.index]) = h1.cycle]

HwAdvance == Settle([hw_ep0 EXCEPT !.index = @ + 1])

\* line 282: ring_doorbell(slot_id, 1); the hardware starts on the EP0 ring
CtDoorbell(t) ==
    /\ pc[t] = "doorbell"
    /\ doorbells' = Append(doorbells, <<Device.slot_id, 1>>)
    /\ call' = [call EXCEPT ![t].rang = @ + 1]
    /\ hw_ep0' = Settle([hw_ep0 EXCEPT !.armed = TRUE])
    /\ pc' = [pc EXCEPT ![t] = "wait"]
    /\ UNCHANGED <<ep0_ring, ep0_lock, dma, ringVars, ctlVars, evtVars>>

\* usize subtraction setup.length - evt.transfer_length(): exact when it does
\* not underflow; otherwise the build decides: a panic with overflow checks,
\* a wrapped value without (a negative n stands for 2^64 + n)
Transferred(c, evt) ==
    LET l == c.setup.length
        r == TransferLength(evt)
    IN  IF l >= r
        THEN {[kind |-> "Ok", n |-> l - r]}
        ELSE {[kind |-> "Panic", n |-> 0], [kind |-> "Ok", n |-> l - r]}

\* lines 296-305: copy_nonoverlapping(buf, d, transferred.min(d.len()))
CopyBack(c, ret, mem) ==
    IF c.data_dir /\ c.data_buf # 0 /\ c.data.some
    THEN LET k == IF ret.n < 0 THEN Len(c.data.bytes) ELSE Min(ret.n, Len(c.data.bytes))
         IN  [i \in 1..Len(c.data.bytes) |->
                 IF i <= k THEN mem[c.data_buf][i] ELSE c.data.bytes[i]]
    ELSE c.data.bytes

\* buf.free(host)
Free(d, b) ==
    [d EXCEPT !.live = @ \ {b},
              !.mem[b] = <<>>,
              !.fault = IF b \in d.live THEN @ ELSE "double free"]

\* a plausible slip: the Stall arm is missing and code 6 falls into the
\* catch-all arm
CompleteNoStallArm(c, evt, mem) ==
    LET code == CompletionCode(evt)
    IN  IF code \in {SUCCESS, SHORT_PACKET}
        THEN { [ret |-> ret,
                bytes |-> IF ret.kind = "Ok" THEN CopyBack(c, ret, mem) ELSE c.data.bytes,
                free |-> ret.kind = "Ok" /\ c.data_buf # 0] : ret \in Transferred(c, evt) }
        ELSE { [ret |-> [kind |-> "XferFail", n |-> code],
                bytes |-> c.data.bytes, free |-> c.data_buf # 0] }

\* lines 289-324: the match on the completion code of the matched event.
\* Yields the possible outcomes: the value returned, the caller's buffer
\* afterwards, and whether buf.free is called.
Complete(c, evt, mem) ==
    LET code == CompletionCode(evt)
    IN  IF code \in {SUCCESS, SHORT_PACKET}
        THEN { [ret |-> ret,
                bytes |-> IF ret.kind = "Ok" THEN CopyBack(c, ret, mem) ELSE c.data.bytes,
                free |-> ret.kind = "Ok" /\ c.data_buf # 0] : ret \in Transferred(c, evt) }
        ELSE IF code = STALL_ERROR
        THEN { [ret |-> [kind |-> "Stall", n |-> 0],
                bytes |-> c.data.bytes, free |-> c.data_buf # 0] }
        ELSE { [ret |-> [kind |-> "XferFail", n |-> code],
                bytes |-> c.data.bytes, free |-> c.data_buf # 0] }

\* lines 285-327: one turn of the wait loop
CtPoll(t) ==
    /\ pc[t] = "wait"
    /\ LET r == PollEventResult(event_ring, erdp)
           c == call[t]
       IN  /\ event_ring' = r.ring
           /\ erdp' = r.erdp
           /\ IF /\ r.ret.some
                 /\ TrbType(r.ret.trb) = TRANSFER_EVENT
                 /\ SlotId(r.ret.trb) = Device.slot_id
              THEN \E o \in Complete(c, r.ret.trb, dma.mem) :
                     /\ call' = [call EXCEPT ![t].ret = o.ret,
                                             ![t].data.bytes = o.bytes,
                                             ![t].evt = r.ret.trb,
                                             ![t].frees = @ + (IF o.free THEN 1 ELSE 0)]
                     /\ dma' = IF o.free THEN Free(dma, c.data_buf) ELSE dma
                     /\ pc' = [pc EXCEPT ![t] = "done"]
              ELSE UNCHANGED <<call, dma, pc>>
    /\ UNCHANGED <<hw_evt, deq_log, ccs_toggles, ep0_ring, ep0_lock, doorbells,
                   hw_ep0, ringVars, ctlVars>>

\* The same wait loop at the grain of the event-ring lock, for callers that
\* run beside other contexts.  xhci.rs lines 243-246, poll_event: try_dequeue
\* under the lock; None goes round the loop (dev.rs line 326)
CtDequeue(t) ==
    /\ pc[t] = "wait"
    /\ LET d == TryDequeue(event_ring)
       IN  /\ event_ring' = d.ring
           /\ deq_log' = [tick |-> 1 - deq_log.tick, ret |-> d.ret]
           /\ ccs_toggles' = ccs_toggles + (IF d.ring.cycle # event_ring.cycle THEN 1 ELSE 0)
           /\ IF d.ret.some
              THEN /\ call' = [call EXCEPT ![t].evt = d.ret.trb,
                                           ![t].ptr = DequeuePtr(d.ring)]
                   /\ pc' = [pc EXCEPT ![t] = "erdp"]
              ELSE UNCHANGED <<call, pc>>
    /\ UNCHANGED <<erdp, hw_evt, ep0_ring, ep0_lock, doorbells, dma, hw_ep0,
                   ringVars, ctlVars>>

\* the match of dev.rs lines 285-327 on the event poll_event returned
CtMatch(t) ==
    LET c   == call[t]
        evt == c.evt
    IN  IF TrbType(evt) = TRANSFER_EVENT /\ SlotId(evt) = Device.slot_id
        THEN \E o \in Complete(c, evt, dma.mem) :
               /\ call' = [call EXCEPT ![t].ret = o.ret,
                                       ![t].data.bytes = o.bytes,
                                       ![t].frees = @ + (IF o.free THEN 1 ELSE 0)]
               /\ dma' = IF o.free THEN Free(dma, c.data_buf) ELSE dma
               /\ pc' = [pc EXCEPT ![t] = "done"]
        ELSE /\ pc' = [pc EXCEPT ![t] = "wait"]
             /\ call' = [call EXCEPT ![t].dropped = Append(@, evt)]
             /\ UNCHANGED dma

\* a plausible slip: ERDP is written with the pointer this caller's own
\* dequeue left, read before the lock was dropped
CtUpdateErdpStale(t) ==
    /\ pc[t] = "erdp"
    /\ erdp' = BitOr(call[t].ptr, 8)
    /\ CtMatch(t)
    /\ UNCHANGED <<event_ring, hw_evt, deq_log, ccs_toggles, ep0_ring, ep0_lock,
                   doorbells, hw_ep0, ringVars, ctlVars>>

\* xhci.rs lines 247-250 and 209-216: update_erdp takes the lock again and
\* writes the ring's dequeue pointer | 8; poll_event returns the event and
\* control_transfer matches it
CtUpdateErdp(t) ==
    /\ pc[t] = "erdp"
    /\ erdp' = ErdpValue(event_ring)
    /\ CtMatch(t)
    /\ UNCHANGED <<event_ring, hw_evt, deq_log, ccs_toggles, ep0_ring, ep0_lock,
                   doorbells, hw_ep0, ringVars, ctlVars>>

\* the caller takes the result; the context is free for the next call
CtReturn(t) ==
    /\ pc[t] = "done"
    /\ pc' = [pc EXCEPT ![t] = "idle"]
    /\ call' = [call EXCEPT ![t] = Idle]
    /\ UNCHANGED <<ep0_ring, ep0_lock, doorbells, dma, hw_ep0, ringVars, ctlVars, evtVars>>

---------------------------------------------------------------------------
(* The controller hardware executing the EP0 transfer ring of the device *)

\* Transfer Event for the TRB at the hardware's dequeue pointer
TransferEvent(code, residual) ==
    [param |-> <<RingPhys(ep0_ring) + 16 * hw_ep0.index, 0>>,
     status |-> BitOr(Shl(code, 24), residual),
     control |-> BitOr(BitOr(Shl(TRANSFER_EVENT, 10), Shl(1, 16)),
                       Shl(Device.slot_id, 24))]

\* Setup Stage TRB: sent to the device; no event (IOC clear)
HwEp0Setup ==
    /\ HwRunning
    /\ HwOwns
    /\ TrbType(HwTrb) = SETUP
    /\ hw_ep0' = HwAdvance
    /\ UNCHANGED <<ep0_ring, ep0_lock, pc, call, doorbells, dma, ringVars, ctlVars, evtVars>>

\* DMA of a Data Stage TRB that moved n of its bytes
HwDma(trb, n) ==
    LET b  == trb.param[1] \div 4096
        in == BitAnd(Shr(trb.control, 16), 1) = 1
    IN  IF b \notin dma.live
        THEN [dma EXCEPT !.fault = "dma to freed buffer"]
        ELSE [dma EXCEPT
                 !.mem[b] = IF in
                            THEN [i \in 1..Len(@) |-> IF i <= n THEN DeviceByte(i) ELSE @[i]]
                            ELSE @,
                 !.fault = IF n > Len(dma.mem[b]) THEN "dma past buffer" ELSE @]

\* Data Stage TRB: the device moves length - residual bytes (all of them with
\* Success, fewer with Short Packet), or the stage fails and the endpoint halts
HwEp0Data(code, residual) ==
    /\ HwRunning
    /\ HwOwns
    /\ TrbType(HwTrb) = DATA
    /\ HwCanPost
    /\ residual <= TransferLength(HwTrb)
    /\ code = SUCCESS => residual = 0
    /\ code = SHORT_PACKET => residual > 0
    /\ dma' = IF code \in {SUCCESS, SHORT_PACKET}
              THEN HwDma(HwTrb, TransferLength(HwTrb) - residual)
              ELSE dma
    /\ HwWrite(TransferEvent(code, residual))
    /\ hw_ep0' = IF code \in {SUCCESS, SHORT_PACKET}
                 THEN HwAdvance
                 ELSE [hw_ep0 EXCEPT !.halted = TRUE]
    /\ UNCHANGED <<erdp, deq_log, ccs_toggles, ep0_ring, ep0_lock, pc, call,
                   doorbells, ringVars, ctlVars>>

\* Status Stage TRB: completes, or fails and the endpoint halts
HwEp0Status(code) ==
    /\ HwRunning
    /\ HwOwns
    /\ TrbType(HwTrb) = STATUS
    /\ HwCanPost
    /\ HwWrite(TransferEvent(code, 0))
    /\ hw_ep0' = IF code = SUCCESS
                 THEN HwAdvance
                 ELSE [hw_ep0 EXCEPT !.halted = TRUE]
    /\ UNCHANGED <<erdp, deq_log, ccs_toggles, ep0_ring, ep0_lock, pc, call,
                   doorbells, dma, ringVars, ctlVars>>

\* events that are not for this device's transfers: a Command Completion, a
\* Transfer Event of another slot
OtherEvents == { EventTrb(COMMAND_COMPLETION, Device.slot_id, SUCCESS, 0),
                 EventTrb(TRANSFER_EVENT, Device.slot_id + 1, SUCCESS, 0) }

\* at most one such event is posted while a call waits
HwOther(t, evt) ==
    /\ pc[t] = "wait"
    /\ ~call[t].other
    /\ Drained
    /\ HwCanPost
    /\ HwWrite(evt)
    /\ call' = [call EXCEPT ![t].other = TRUE]
    /\ UNCHANGED <<erdp, deq_log, ccs_toggles, ep0_ring, ep0_lock, pc, doorbells,
                   dma, hw_ep0, ringVars, ctlVars>>

---------------------------------------------------------------------------
(* Controller construction: XhciCtrl::new and XhciCtrl::init against the   *)
(* operational registers                                                    *)

\* reg.rs: bits of USBCMD and USBSTS
USBCMD_RUN   == 1
USBCMD_HCRST == 2
USBCMD_INTE  == 4
USBSTS_HCH   == 1
USBSTS_CNR   == 2048

MMIO_INIT_SIZE == 4096
MMIO_MIN_SIZE  == 65536

Max(a, b) == IF a >= b THEN a ELSE b

\* a & !m
ClearBits(a, m) == a - BitAnd(a, m)

\* EventRing::erst_phys: the one-entry segment table follows the ring
ErstPhys(er) == er.phys + 16 * er.size

\* capability registers a controller may present: CAPLENGTH, HCSPARAMS1,
\* HCSPARAMS2 as <<bits 15:0, bits 31:16>>, DBOFF, RTSOFF.  The HCSPARAMS2
\* values have bit 26 only, bit 27, and bits 31 and 21 set.
CapSets ==
    [caplength : {32, 255},
     hcs1 : {1 + Shl(1, 24), 2 + Shl(1, 24)},
     hcs2 : {<<0, 0>>, <<0, 1024>>, <<0, 2048>>, <<0, 32768 + 32>>},
     dboff : {8192, 65536},
     rtsoff : {12288, 65536}]

\* USBCMD as the firmware may have left it
BootUsbCmd == {0, USBCMD_INTE, USBCMD_RUN, USBCMD_RUN + USBCMD_INTE}

\* lines 48-50
MaxSlotsOf(hcs1) == BitAnd(hcs1, 255)
MaxPortsOf(hcs1) == BitAnd(Shr(hcs1, 24), 255)
\* a plausible slip: the two fields of Max Scratchpad Buffers are swapped
MaxScratchpadSwapped(hcs2) ==
    BitOr(BitAnd(Shr(hcs2[2], 21 - 16), 31), Shl(BitAnd(Shr(hcs2[2], 27 - 16), 31), 5))

\* line 50: ((hcs2 >> 27) & 0x1f) | (((hcs2 >> 21) & 0x1f) << 5); both fields
\* lie in the upper half of the register
MaxScratchpadOf(hcs2) ==
    BitOr(BitAnd(Shr(hcs2[2], 27 - 16), 31), Shl(BitAnd(Shr(hcs2[2], 21 - 16), 31), 5))

\* a plausible slip: the doorbell array is left out of the size
MmioSizeNoDoorbells(rtsoff, dboff, max_slots) ==
    Max(rtsoff + 32 + 32, MMIO_MIN_SIZE)

\* lines 53-55
MmioSize(rtsoff, dboff, max_slots) ==
    Max(Max(rtsoff + 32 + 32, dboff + (max_slots + 1) * 4), MMIO_MIN_SIZE)

\* the largest u8
U8_MAX == 255

\* reg.rs lines 32-44: offset from the operational base and width in bytes of
\* USBCMD, USBSTS, CRCR, DCBAAP and CONFIG
OpRegs ==
    { [off |-> 0, width |-> 4], [off |-> 4, width |-> 4], [off |-> 24, width |-> 8],
      [off |-> 48, width |-> 8], [off |-> 56, width |-> 4] }

\* reg.rs lines 217-221: offset from the interrupter base and width of ERSTSZ,
\* ERSTBA and ERDP
IntRegs ==
    { [off |-> 8, width |-> 4], [off |-> 16, width |-> 8], [off |-> 24, width |-> 8] }

\* reg.rs lines 258-270
PortRegBase(cap_length, port) == cap_length + 1024 + port * 16
Doorbell(db_offset, slot) == db_offset + slot * 4
InterrupterBase(rts_offset, interrupter) == rts_offset + 32 + interrupter * 32

\* the byte ranges [lo, hi) of the mapped region that the controller's
\* register accesses touch: read_op / write_op, port_status and reset_port for
\* a u8 port, the primary interrupter, ring_cmd_doorbell and ring_doorbell
RegRanges(c) ==
    {[lo |-> c.cap_length + r.off, hi |-> c.cap_length + r.off + r.width] : r \in OpRegs}
    \cup {[lo |-> PortRegBase(c.cap_length, p), hi |-> PortRegBase(c.cap_length, p) + 4] :
             p \in 0..U8_MAX}
    \cup {[lo |-> InterrupterBase(c.rts_offset, 0) + r.off,
           hi |-> InterrupterBase(c.rts_offset, 0) + r.off + r.width] : r \in IntRegs}
    \cup {[lo |-> Doorbell(c.db_offset, sl), hi |-> Doorbell(c.db_offset, sl) + 4] :
             sl \in 0..c.max_slots}

Access(op, reg, val) == [op |-> op, reg |-> reg, val |-> val]

Log(entries) == hw_log' = hw_log \o entries

\* what the firmware hands over: the capability registers of this controller,
\* and the controller either halted or left running
HwFirmware(caps, cmd) ==
    /\ ~regs.booted
    /\ regs' = [regs EXCEPT !.caps = caps, !.usbcmd = cmd, !.booted = TRUE,
                            !.usbsts = IF BitAnd(cmd, USBCMD_RUN) # 0
                                       THEN 0 ELSE USBSTS_HCH]
    /\ UNCHANGED <<ctor, host, hw_log>>
    /\ UNCHANGED exceptNew

\* lines 37-40: the initial mapping succeeds
NewMapInit ==
    /\ ctor.pc = "start"
    /\ regs.booted
    /\ host' = [host EXCEPT !.mapped = @ \cup {1}]
    /\ ctor' = [ctor EXCEPT !.pc = "caps", !.init_mmio = 1]
    /\ Log(<<Access("map", "ok", MMIO_INIT_SIZE)>>)
    /\ UNCHANGED regs
    /\ UNCHANGED exceptNew

\* lines 37-40: map_mmio fails, new returns MapFail
NewMapInitFail ==
    /\ ctor.pc = "start"
    /\ regs.booted
    /\ ctor' = [ctor EXCEPT !.pc = "done", !.ret = "MapFail"]
    /\ Log(<<Access("map", "fail", MMIO_INIT_SIZE)>>)
    /\ UNCHANGED <<host, regs>>
    /\ UNCHANGED exceptNew

\* a plausible slip: the initial mapping is kept while the region is remapped
NewReadCapsKeepMap ==
    /\ ctor.pc = "caps"
    /\ ctor' = [ctor EXCEPT !.pc = "remap",
                            !.cap_length = regs.caps.caplength,
                            !.db_offset = regs.caps.dboff,
                            !.rts_offset = regs.caps.rtsoff,
                            !.max_slots = MaxSlotsOf(regs.caps.hcs1),
                            !.max_scratchpad = MaxScratchpadOf(regs.caps.hcs2),
                            !.mmio_size = MmioSize(regs.caps.rtsoff, regs.caps.dboff,
                                                   MaxSlotsOf(regs.caps.hcs1))]
    /\ Log(<<Access("read", "CAPLENGTH", regs.caps.caplength),
             Access("read", "HCSPARAMS1", regs.caps.hcs1),
             Access("read", "HCSPARAMS2", regs.caps.hcs2),
             Access("read", "DBOFF", regs.caps.dboff),
             Access("read", "RTSOFF", regs.caps.rtsoff)>>)
    /\ UNCHANGED <<host, regs>>
    /\ UNCHANGED exceptNew

\* lines 42-59: read the capability registers, size the region, unmap
NewReadCaps ==
    /\ ctor.pc = "caps"
    /\ ctor' = [ctor EXCEPT !.pc = "remap",
                            !.cap_length = regs.caps.caplength,
                            !.db_offset = regs.caps.dboff,
                            !.rts_offset = regs.caps.rtsoff,
                            !.max_slots = MaxSlotsOf(regs.caps.hcs1),
                            !.max_scratchpad = MaxScratchpadOf(regs.caps.hcs2),
                            !.mmio_size = MmioSize(regs.caps.rtsoff, regs.caps.dboff,
                                                   MaxSlotsOf(regs.caps.hcs1))]
    /\ host' = [host EXCEPT !.mapped = @ \ {ctor.init_mmio}]
    /\ Log(<<Access("read", "CAPLENGTH", regs.caps.caplength),
             Access("read", "HCSPARAMS1", regs.caps.hcs1),
             Access("read", "HCSPARAMS2", regs.caps.hcs2),
             Access("read", "DBOFF", regs.caps.dboff),
             Access("read", "RTSOFF", regs.caps.rtsoff),
             Access("unmap", "ok", MMIO_INIT_SIZE)>>)
    /\ UNCHANGED regs
    /\ UNCHANGED exceptNew

\* lines 62-68: the full-size mapping succeeds
NewMapFull ==
    /\ ctor.pc = "remap"
    /\ host' = [host EXCEPT !.mapped = @ \cup {2}]
    /\ ctor' = [ctor EXCEPT !.pc = "alloc", !.mmio = 2]
    /\ Log(<<Access("map", "ok", ctor.mmio_size)>>)
    /\ UNCHANGED regs
    /\ UNCHANGED exceptNew

\* lines 62-65: the full-size mapping fails, new returns MapFail
NewMapFullFail ==
    /\ ctor.pc = "remap"
    /\ ctor' = [ctor EXCEPT !.pc = "done", !.ret = "MapFail"]
    /\ Log(<<Access("map", "fail", ctor.mmio_size)>>)
    /\ UNCHANGED <<host, regs>>
    /\ UNCHANGED exceptNew

\* lines 72-107: the DMA allocations of new, in order
AllocPlan(c) ==
    <<"dcbaa">> \o (IF c.max_scratchpad > 0 THEN <<"sp_array", "sp_bufs">> ELSE <<>>)
                \o <<"cmd_ring", "event_ring">>

\* the DCBAA as allocated: (max_slots + 1) entries, zeroed
DcbaaNew == [s \in 0..(MaxCmds + 2) |-> 0]

\* ram.rs line 57: the bridge's default page size
PAGE_SIZE == 4096

\* where the bridge places the regions new allocates
RegionPhys(name) ==
    CASE name = "cmd_ring"   -> PhysBase(1)
      [] name = "event_ring" -> PhysBase(2)
      [] name = "dcbaa"      -> PhysBase(7)
      [] name = "sp_array"   -> PhysBase(9)
      [] name = "sp_bufs"    -> PhysBase(64)

\* lines 86-92: entry i of the scratchpad array, i = 0 .. max_scratchpad - 1,
\* kept at index i + 1
ScratchpadArray(n) == [k \in 1..n |-> RegionPhys("sp_bufs") + (k - 1) * PAGE_SIZE]

\* lines 99-100 and 109-123: the regions whose handles end up in the XhciCtrl
\* value; the handle sp_array goes out of scope at the end of the block
Retained(name) == name # "sp_array"

\* lines 72-107: the next allocation succeeds.  After sp_bufs the array is
\* filled and DCBAA[0] written (lines 86-97).
NewAllocOk ==
    /\ ctor.pc = "alloc"
    /\ LET plan == AllocPlan(ctor)
           k    == ctor.allocs + 1
           last == k = Len(plan)
       IN  /\ ctor' = [ctor EXCEPT
                 !.allocs = k,
                 !.pc = IF last THEN "init" ELSE "alloc",
                 !.owned = IF last THEN {plan[i] : i \in {j \in 1..k : Retained(plan[j])}}
                           ELSE @]
           /\ host' = [host EXCEPT
                 !.dma = @ \cup {plan[k]},
                 !.sp_array = IF plan[k] = "sp_bufs"
                              THEN ScratchpadArray(ctor.max_scratchpad) ELSE @]
           /\ dcbaa' = IF plan[k] = "sp_bufs"
                       THEN [dcbaa EXCEPT ![0] = RegionPhys("sp_array")]
                       ELSE dcbaa
           /\ Log(<<Access("alloc", plan[k], 0)>>)
    /\ UNCHANGED <<regs, cmd_lock, sc, hw_cmd, dn, portsc, port_log>>
    /\ UNCHANGED <<ringVars, evtVars, devVars, epVars>>

\* lines 72-107: the next allocation fails and `?` returns OoRam
NewAllocFail ==
    /\ ctor.pc = "alloc"
    /\ ctor' = [ctor EXCEPT !.pc = "done", !.ret = "OoRam"]
    /\ UNCHANGED <<host, regs, hw_log>>
    /\ UNCHANGED exceptNew

\* a register write as the hardware sees it: HCRST starts a reset, during
\* which the controller is not ready
WriteUsbCmd(r, val) ==
    IF BitAnd(val, USBCMD_HCRST) # 0
    THEN [r EXCEPT !.usbcmd = val, !.usbsts = BitOr(r.usbsts, USBSTS_CNR)]
    ELSE [r EXCEPT !.usbcmd = val]

\* lines 131-137: stop the controller if it is running
InitStop ==
    /\ ctor.pc = "init"
    /\ IF BitAnd(regs.usbcmd, USBCMD_RUN) # 0
       THEN /\ regs' = WriteUsbCmd(regs, ClearBits(regs.usbcmd, USBCMD_RUN))
            /\ ctor' = [ctor EXCEPT !.pc = "halt_wait"]
            /\ Log(<<Access("read", "USBCMD", regs.usbcmd),
                     Access("write", "USBCMD", ClearBits(regs.usbcmd, USBCMD_RUN))>>)
       ELSE /\ ctor' = [ctor EXCEPT !.pc = "reset"]
            /\ Log(<<Access("read", "USBCMD", regs.usbcmd)>>)
            /\ UNCHANGED regs
    /\ UNCHANGED host
    /\ UNCHANGED exceptNew

\* a plausible slip: the halt is not awaited
InitHaltNoWait ==
    /\ ctor.pc = "halt_wait"
    /\ ctor' = [ctor EXCEPT !.pc = "reset"]
    /\ Log(<<Access("read", "USBSTS", regs.usbsts)>>)
    /\ UNCHANGED <<host, regs>>
    /\ UNCHANGED exceptNew

\* line 134: the read of USBSTS that ends the spin shows HCH set
InitHaltSeen ==
    /\ ctor.pc = "halt_wait"
    /\ BitAnd(regs.usbsts, USBSTS_HCH) # 0
    /\ ctor' = [ctor EXCEPT !.pc = "reset"]
    /\ Log(<<Access("read", "USBSTS", regs.usbsts)>>)
    /\ UNCHANGED <<host, regs>>
    /\ UNCHANGED exceptNew

\* line 140: reset the controller
InitReset ==
    /\ ctor.pc = "reset"
    /\ regs' = WriteUsbCmd(regs, USBCMD_HCRST)
    /\ ctor' = [ctor EXCEPT !.pc = "reset_wait"]
    /\ Log(<<Access("write", "USBCMD", USBCMD_HCRST)>>)
    /\ UNCHANGED host
    /\ UNCHANGED exceptNew

\* lines 141-143: the read of USBCMD that ends the spin shows HCRST clear
InitResetSeen ==
    /\ ctor.pc = "reset_wait"
    /\ BitAnd(regs.usbcmd, USBCMD_HCRST) = 0
    /\ ctor' = [ctor EXCEPT !.pc = "cnr_wait"]
    /\ Log(<<Access("read", "USBCMD", regs.usbcmd)>>)
    /\ UNCHANGED <<host, regs>>
    /\ UNCHANGED exceptNew

\* a plausible slip: CNR is read once and not awaited
InitReadyNoWait ==
    /\ ctor.pc = "cnr_wait"
    /\ ctor' = [ctor EXCEPT !.pc = "config"]
    /\ Log(<<Access("read", "USBSTS", regs.usbsts)>>)
    /\ UNCHANGED <<host, regs>>
    /\ UNCHANGED exceptNew

\* lines 144-146: the read of USBSTS that ends the spin shows CNR clear
InitReadySeen ==
    /\ ctor.pc = "cnr_wait"
    /\ BitAnd(regs.usbsts, USBSTS_CNR) = 0
    /\ ctor' = [ctor EXCEPT !.pc = "config"]
    /\ Log(<<Access("read", "USBSTS", regs.usbsts)>>)
    /\ UNCHANGED <<host, regs>>
    /\ UNCHANGED exceptNew

\* lines 149-165: CONFIG, DCBAAP, CRCR and the primary interrupter
InitConfigure ==
    /\ ctor.pc = "config"
    /\ regs' = [regs EXCEPT !.config = ctor.max_slots]
    /\ ctor' = [ctor EXCEPT !.pc = "run"]
    /\ Log(<<Access("write", "CONFIG", ctor.max_slots),
             Access("write", "DCBAAP", RegionPhys("dcbaa")),
             Access("write", "CRCR", BitOr(RingPhys(cmd_ring), 1)),
             Access("write", "ERSTSZ", 1),
             Access("write", "ERSTBA", ErstPhys(event_ring)),
             Access("write", "ERDP", event_ring.phys)>>)
    /\ UNCHANGED host
    /\ UNCHANGED exceptNew

\* line 168: enable interrupts and start the controller
InitRun ==
    /\ ctor.pc = "run"
    /\ regs' = WriteUsbCmd(regs, USBCMD_RUN + USBCMD_INTE)
    /\ ctor' = [ctor EXCEPT !.pc = "run_wait"]
    /\ Log(<<Access("write", "USBCMD", USBCMD_RUN + USBCMD_INTE)>>)
    /\ UNCHANGED host
    /\ UNCHANGED exceptNew

\* a plausible slip: the spin gives up after a deadline and reports Timeout
InitRunningDeadline ==
    /\ ctor.pc = "run_wait"
    /\ ctor' = [ctor EXCEPT !.pc = "done",
                            !.ret = IF BitAnd(regs.usbsts, USBSTS_HCH) = 0
                                    THEN "Ok" ELSE "Timeout"]
    /\ Log(<<Access("read", "USBSTS", regs.usbsts)>>)
    /\ UNCHANGED <<host, regs>>
    /\ UNCHANGED exceptNew

\* lines 171-175: the read of USBSTS that ends the spin shows HCH clear
InitRunning ==
    /\ ctor.pc = "run_wait"
    /\ BitAnd(regs.usbsts, USBSTS_HCH) = 0
    /\ ctor' = [ctor EXCEPT !.pc = "done", !.ret = "Ok"]
    /\ Log(<<Access("read", "USBSTS", regs.usbsts)>>)
    /\ UNCHANGED <<host, regs>>
    /\ UNCHANGED exceptNew

\* the controller halts some time after RUN is cleared
HwHalt ==
    /\ regs.booted
    /\ BitAnd(regs.usbcmd, USBCMD_RUN) = 0
    /\ BitAnd(regs.usbsts, USBSTS_HCH) = 0
    /\ regs' = [regs EXCEPT !.usbsts = BitOr(@, USBSTS_HCH)]
    /\ UNCHANGED <<ctor, host, hw_log>>
    /\ UNCHANGED exceptNew

\* the reset completes: HCRST reads 0 again, the registers hold their defaults
HwResetDone ==
    /\ BitAnd(regs.usbcmd, USBCMD_HCRST) # 0
    /\ regs' = [regs EXCEPT !.usbcmd = 0, !.config = 0,
                            !.usbsts = BitOr(USBSTS_HCH, USBSTS_CNR)]
    /\ UNCHANGED <<ctor, host, hw_log>>
    /\ UNCHANGED exceptNew

\* the controller becomes ready after a reset
HwReady ==
    /\ BitAnd(regs.usbcmd, USBCMD_HCRST) = 0
    /\ BitAnd(regs.usbsts, USBSTS_CNR) # 0
    /\ regs' = [regs EXCEPT !.usbsts = @ - USBSTS_CNR]
    /\ UNCHANGED <<ctor, host, hw_log>>
    /\ UNCHANGED exceptNew

\* the controller starts some time after RUN is set
HwStart ==
    /\ BitAnd(regs.usbcmd, USBCMD_RUN) # 0
    /\ BitAnd(regs.usbcmd, USBCMD_HCRST) = 0
    /\ BitAnd(regs.usbsts, USBSTS_HCH) # 0
    /\ regs' = [regs EXCEPT !.usbsts = @ - USBSTS_HCH]
    /\ UNCHANGED <<ctor, host, hw_log>>
    /\ UNCHANGED exceptNew

---------------------------------------------------------------------------
(* Controller: submit_command and wait_command, and the command ring as    *)
(* the hardware executes it                                                 *)

NoResult == [kind |-> "none", code |-> 0]

ScIdle == [pc |-> "idle", trb |-> ZeroTrb, at |-> 0, evt |-> ZeroTrb,
           ret |-> NoResult, steps |-> <<>>, calls |-> 0]

Step(s, ty) == [s |-> s, ty |-> ty]

\* physical address of the slot the next enqueue on ring r fills
EnqueueAddr(r) == RingPhys(r) + 16 * r.enqueue_index

\* a caller has entered submit_command(trb)
ScStart(s, trb) == [ScIdle EXCEPT !.pc = "lock", !.trb = trb, !.calls = s.calls + 1]

\* line 255: self.cmd_ring.lock()
ScLock(t) ==
    /\ sc[t].pc = "lock"
    /\ cmd_lock = 0
    /\ cmd_lock' = t
    /\ sc' = [sc EXCEPT ![t].pc = "enq"]
    /\ UNCHANGED <<hw_cmd, dn, dcbaa, portsc, port_log>>
    /\ UNCHANGED <<ringVars, evtVars, devVars, newVars, epVars>>

\* lines 256-257: enqueue the TRB, drop the guard
ScEnqueue(t) ==
    /\ sc[t].pc = "enq"
    /\ cmd_ring' = Enqueue(cmd_ring, sc[t].trb)
    /\ cmd_lock' = 0
    /\ sc' = [sc EXCEPT ![t].pc = "bell", ![t].at = EnqueueAddr(cmd_ring),
                        ![t].steps = Append(@, Step("enq", TrbType(sc[t].trb)))]
    /\ UNCHANGED <<hw_cmd, dn, dcbaa, portsc, port_log>>
    /\ UNCHANGED <<enq_log, enq_count, link_toggles, evtVars, devVars, newVars, epVars>>

\* the hardware's position h on ring r brought to the next TRB it may execute
SettleOn(r, h) ==
    LET trb == r.slots[h.index]
        h1  == IF CycleBit(trb) = h.cycle /\ TrbType(trb) = LINK
               THEN [h EXCEPT
                       !.index = (trb.param[1] - RingPhys(r)) \div 16,
                       !.cycle = IF BitAnd(Shr(trb.control, 1), 1) = 1 THEN 1 - @ ELSE @]
               ELSE h
    IN  [h1 EXCEPT !.armed = h.armed /\ CycleBit(r.slots[h1.index]) = h1.cycle]

\* lines 197-200, 258: ring_cmd_doorbell writes 0 to doorbell 0
ScDoorbell(t) ==
    /\ sc[t].pc = "bell"
    /\ doorbells' = Append(doorbells, <<0, 0>>)
    /\ hw_cmd' = SettleOn(cmd_ring, [hw_cmd EXCEPT !.armed = TRUE])
    /\ sc' = [sc EXCEPT ![t].pc = "wait", ![t].steps = Append(@, Step("bell", 0))]
    /\ UNCHANGED <<cmd_lock, dn, dcbaa, portsc, port_log>>
    /\ UNCHANGED <<ringVars, evtVars, newVars, epVars>>
    /\ UNCHANGED <<ep0_ring, ep0_lock, pc, call, dma, hw_ep0>>

\* lines 221-226: try_dequeue under the event-ring lock finds an event
WcDequeue(t) ==
    /\ sc[t].pc = "wait"
    /\ LET d == TryDequeue(event_ring)
       IN  /\ d.ret.some
           /\ event_ring' = d.ring
           /\ sc' = [sc EXCEPT ![t].pc = "erdp", ![t].evt = d.ret.trb,
                               ![t].steps = Append(@, Step("deq", TrbType(d.ret.trb)))]
    /\ UNCHANGED <<cmd_lock, hw_cmd, dn, dcbaa, portsc, port_log>>
    /\ UNCHANGED <<erdp, hw_evt, deq_log, ccs_toggles, ringVars, devVars, newVars, epVars>>

\* a plausible slip: the type of the event is not looked at
WaitResultAnyEvent(evt) ==
    IF CompletionCode(evt) # SUCCESS
    THEN [kind |-> "CmdFail", code |-> CompletionCode(evt)]
    ELSE [kind |-> "Ok", code |-> CompletionCode(evt)]

\* the outcome of wait_command for a dequeued event: lines 229-235
WaitResult(evt) ==
    IF TrbType(evt) = COMMAND_COMPLETION
    THEN IF CompletionCode(evt) # SUCCESS
         THEN [kind |-> "CmdFail", code |-> CompletionCode(evt)]
         ELSE [kind |-> "Ok", code |-> CompletionCode(evt)]
    ELSE NoResult

\* a plausible slip: ERDP is left alone for events that are dropped
WcUpdateErdpOnMatch(t) ==
    /\ sc[t].pc = "erdp"
    /\ LET r == WaitResult(sc[t].evt)
       IN  IF r.kind = "none"
           THEN /\ sc' = [sc EXCEPT ![t].pc = "wait",
                               ![t].steps = Append(@, Step("drop", TrbType(sc[t].evt)))]
                /\ UNCHANGED erdp
           ELSE /\ erdp' = ErdpValue(event_ring)
                /\ sc' = [sc EXCEPT ![t].pc = "done", ![t].ret = r,
                               ![t].steps = Append(@, Step("erdp", 0))]
    /\ UNCHANGED <<cmd_lock, hw_cmd, dn, dcbaa, portsc, port_log>>
    /\ UNCHANGED <<event_ring, hw_evt, deq_log, ccs_toggles, ringVars, devVars, newVars, epVars>>

\* lines 227-235: update_erdp, then return on a Command Completion event and
\* go round the loop on any other
WcUpdateErdp(t) ==
    /\ sc[t].pc = "erdp"
    /\ erdp' = ErdpValue(event_ring)
    /\ LET r == WaitResult(sc[t].evt)
       IN  IF r.kind = "none"
           THEN sc' = [sc EXCEPT ![t].pc = "wait",
                          ![t].steps = @ \o <<Step("erdp", 0),
                                              Step("drop", TrbType(sc[t].evt))>>]
           ELSE sc' = [sc EXCEPT ![t].pc = "done", ![t].ret = r,
                          ![t].steps = Append(@, Step("erdp", 0))]
    /\ UNCHANGED <<cmd_lock, hw_cmd, dn, dcbaa, portsc, port_log>>
    /\ UNCHANGED <<event_ring, hw_evt, deq_log, ccs_toggles, ringVars, devVars, newVars, epVars>>

\* completion codes the hardware gives a command: Success or TRB Error
CmdCodes == {SUCCESS, 5}

\* the Command Completion event for the command TRB at address `at`
CommandCompletion(at, slot, code) ==
    [EventTrb(COMMAND_COMPLETION, slot, code, 0) EXCEPT !.param = <<at, 0>>]

\* the hardware executes the command at its dequeue pointer and posts the
\* completion; Enable Slot is given the next free slot id.  What it found at
\* that moment is kept: the DCBAA entry of the slot and the add flags of the
\* Input Context
HwCommand(code) ==
    /\ hw_cmd.armed
    /\ HwCanPost
    /\ LET trb  == cmd_ring.slots[hw_cmd.index]
           at   == RingPhys(cmd_ring) + 16 * hw_cmd.index
           en   == TrbType(trb) = ENABLE_SLOT /\ code = SUCCESS
           slot == IF TrbType(trb) = ENABLE_SLOT
                   THEN (IF en THEN hw_cmd.slots + 1 ELSE 0)
                   ELSE SlotId(trb)
           h    == [hw_cmd EXCEPT !.index = @ + 1,
                                  !.slots = IF en THEN @ + 1 ELSE @,
                                  !.done = @ \cup {[at |-> at, code |-> code,
                                                    dcbaa |-> dcbaa[slot],
                                                    ty |-> TrbType(trb),
                                                    add |-> dn.input.add]}]
       IN  /\ CycleBit(trb) = hw_cmd.cycle
           /\ HwWrite(CommandCompletion(at, slot, code))
           /\ hw_cmd' = SettleOn(cmd_ring, h)
    /\ UNCHANGED <<cmd_lock, sc, dn, dcbaa, portsc, port_log>>
    /\ UNCHANGED <<erdp, deq_log, ccs_toggles, ringVars, devVars, newVars, epVars>>

\* an event of another kind arrives while a command is awaited
HwStray(t) ==
    /\ sc[t].pc = "wait"
    /\ hw_cmd.stray < MaxStray
    /\ Drained
    /\ HwCanPost
    /\ HwWrite(EventTrb(TRANSFER_EVENT, 1, SUCCESS, 0))
    /\ hw_cmd' = [hw_cmd EXCEPT !.stray = @ + 1]
    /\ UNCHANGED <<cmd_lock, sc, dn, dcbaa, portsc, port_log>>
    /\ UNCHANGED <<erdp, deq_log, ccs_toggles, ringVars, devVars, newVars, epVars>>

\* another context calls submit_command (enable_slot, disable_slot)
Submit(t, trb) ==
    /\ sc[t].pc = "idle"
    /\ sc[t].calls < MaxCmds
    /\ sc' = [sc EXCEPT ![t] = ScStart(sc[t], trb)]
    /\ UNCHANGED <<cmd_lock, hw_cmd, dn, dcbaa, portsc, port_log>>
    /\ UNCHANGED <<ringVars, evtVars, devVars, newVars, epVars>>

\* that context takes the result
SubmitReturn(t) ==
    /\ sc[t].pc = "done"
    /\ sc' = [sc EXCEPT ![t] = [ScIdle EXCEPT !.calls = sc[t].calls]]
    /\ UNCHANGED <<cmd_lock, hw_cmd, dn, dcbaa, portsc, port_log>>
    /\ UNCHANGED <<ringVars, evtVars, devVars, newVars, epVars>>

---------------------------------------------------------------------------
(* Controller: reset_port and port_speed against the PORTSC register *)

PORTSC_CCS == 1
PORTSC_PED == 2
PORTSC_PR  == 16
PORTSC_PP  == 512
PORTSC_SPEED_MASK == 15360
PORTSC_CSC == 131072
PORTSC_PRC == 2097152

SPEED_FULL  == 1
SPEED_LOW   == 2
SPEED_HIGH  == 3
SPEED_SUPER == 4

\* PORTSC after software writes val: CCS and the speed are read-only, PP is
\* read-write, PR is write-1-to-set, PED and the change bits write-1-to-clear
WritePortsc(cur, val) ==
    BitAnd(cur, PORTSC_CCS + PORTSC_SPEED_MASK)
    + BitAnd(val, PORTSC_PP)
    + BitAnd(BitOr(cur, val), PORTSC_PR)
    + ClearBits(BitAnd(cur, PORTSC_PED + PORTSC_CSC + PORTSC_PRC), val)

\* lines 298-303: read PORTSC, write (portsc & PP) | PR
RpBegin ==
    /\ dn.pc = "reset"
    /\ LET val == BitOr(BitAnd(portsc, PORTSC_PP), PORTSC_PR)
       IN  /\ portsc' = WritePortsc(portsc, val)
           /\ port_log' = port_log \o <<Access("read", "PORTSC", portsc),
                                        Access("write", "PORTSC", val)>>
    /\ dn' = [dn EXCEPT !.pc = "reset_wait", !.steps = Append(@, "reset_port")]
    /\ UNCHANGED <<cmd_lock, sc, hw_cmd, dcbaa>>
    /\ UNCHANGED <<ringVars, evtVars, devVars, newVars, epVars>>

\* a plausible slip: the end of the reset is not awaited
RpResetNoWait ==
    /\ dn.pc = "reset_wait"
    /\ port_log' = Append(port_log, Access("read", "PORTSC", portsc))
    /\ dn' = [dn EXCEPT !.pc = "reset_clear"]
    /\ UNCHANGED <<cmd_lock, sc, hw_cmd, dcbaa, portsc>>
    /\ UNCHANGED <<ringVars, evtVars, devVars, newVars, epVars>>

\* lines 306-312: the read of PORTSC that ends the spin shows PR clear
RpResetSeen ==
    /\ dn.pc = "reset_wait"
    /\ BitAnd(portsc, PORTSC_PR) = 0
    /\ port_log' = Append(port_log, Access("read", "PORTSC", portsc))
    /\ dn' = [dn EXCEPT !.pc = "reset_clear"]
    /\ UNCHANGED <<cmd_lock, sc, hw_cmd, dcbaa, portsc>>
    /\ UNCHANGED <<ringVars, evtVars, devVars, newVars, epVars>>

\* lines 315-318: read PORTSC, write it back with PRC set
RpClearChange ==
    /\ dn.pc = "reset_clear"
    /\ LET val == BitOr(portsc, PORTSC_PRC)
       IN  /\ portsc' = WritePortsc(portsc, val)
           /\ port_log' = port_log \o <<Access("read", "PORTSC", portsc),
                                        Access("write", "PORTSC", val)>>
    /\ dn' = [dn EXCEPT !.pc = "speed"]
    /\ UNCHANGED <<cmd_lock, sc, hw_cmd, dcbaa>>
    /\ UNCHANGED <<ringVars, evtVars, devVars, newVars, epVars>>

\* lines 322-325: port_speed
PortSpeed(v) == BitAnd(Shr(v, 10), 15)

\* speeds a reset port may report (two of reg.rs SPEED_*: one below High, one not)
Speeds == {SPEED_FULL, SPEED_HIGH}

\* the port finishes its reset: PR clears, the port is enabled, PRC is set
HwPortReset(speed) ==
    /\ BitAnd(portsc, PORTSC_PR) # 0
    /\ portsc' = BitOr(ClearBits(portsc, PORTSC_PR + PORTSC_SPEED_MASK),
                       PORTSC_PED + PORTSC_PRC + Shl(speed, 10))
    /\ UNCHANGED <<cmd_lock, sc, hw_cmd, dn, dcbaa, port_log>>
    /\ UNCHANGED <<ringVars, evtVars, devVars, newVars, epVars>>

---------------------------------------------------------------------------
(* Device: UsbDevice::new *)

\* lines 35-43: SlotContext::new
SlotContextNew(route, speed, context_entries, root_port) ==
    [dw0 |-> BitOr(BitOr(BitAnd(route, 1048575), Shl(speed, 20)),
                   Shl(context_entries, 27)),
     dw1 |-> Shl(root_port, 16), dw2 |-> 0, dw3 |-> 0]

\* lines 67-85: EndpointContext::new; tr_ptr is <<lo, hi>>
EndpointContextNew(ep_type, max_packet_size, max_burst, interval, tr_ptr) ==
    [dw0 |-> Shl(interval, 16),
     dw1 |-> BitOr(BitOr(Shl(3, 1), Shl(ep_type, 3)),
                   BitOr(Shl(max_burst, 8), Shl(max_packet_size, 16))),
     tr_dequeue_lo |-> BitOr(tr_ptr[1], 1),
     tr_dequeue_hi |-> tr_ptr[2],
     dw4 |-> 8]

\* the Input Context is allocated zeroed: a word of a context that the program
\* has not written is 0
ZeroEndpointContext ==
    [dw0 |-> 0, dw1 |-> 0, tr_dequeue_lo |-> 0, tr_dequeue_hi |-> 0, dw4 |-> 0]

\* lines 94-101: InputContext as allocated: input_control[0] (drop flags) and
\* input_control[1] (add flags), each <<bits 15:0, bits 31:16>>, slot,
\* endpoints[0..30]
ZeroInputContext ==
    [drop |-> <<0, 0>>, add |-> <<0, 0>>,
     slot |-> [dw0 |-> 0, dw1 |-> 0, dw2 |-> 0, dw3 |-> 0],
     endpoints |-> [i \in 0..30 |-> ZeroEndpointContext]]

\* lines 172-178: default max packet size of EP0 by speed
Ep0MaxPacket(speed) ==
    IF speed = SPEED_LOW THEN 8
    ELSE IF speed = SPEED_FULL THEN 8
    ELSE IF speed = SPEED_HIGH THEN 64
    ELSE IF speed = SPEED_SUPER THEN 512
    ELSE 8

\* physical addresses of the new device's contexts
InputCtxPhys  == PhysBase(3)
DeviceCtxPhys == PhysBase(8)

DnIdle == [pc |-> "start", port |-> 0, slot_id |-> 0, speed |-> 0,
           device_ctx |-> 0, input_ctx |-> 0, has_ring |-> FALSE,
           input |-> ZeroInputContext, at |-> 0, ret |-> "none", steps |-> <<>>,
           live |-> {}, allocs |-> 0, frees |-> 0]

\* lines 264-269: enable_slot builds its TRB and submits it
EnableSlotTrb ==
    [param |-> <<0, 0>>, status |-> 0, control |-> Shl(ENABLE_SLOT, 10)]

\* lines 275-280: disable_slot builds its TRB and submits it
DisableSlotTrb(slot_id) ==
    [param |-> <<0, 0>>, status |-> 0,
     control |-> BitOr(Shl(DISABLE_SLOT, 10), Shl(slot_id, 24))]

\* lines 192-196: the Address Device TRB
AddressDeviceTrb(input_ctx, slot_id) ==
    [param |-> <<input_ctx, 0>>, status |-> 0,
     control |-> BitOr(Shl(ADDRESS_DEVICE, 10), Shl(slot_id, 24))]

\* line 141: ctrl.enable_slot() is entered
DnEnableSlot(t) ==
    /\ dn.pc = "start"
    /\ sc[t].pc = "idle"
    /\ sc' = [sc EXCEPT ![t] = ScStart(sc[t], EnableSlotTrb)]
    /\ dn' = [dn EXCEPT !.pc = "enable", !.steps = Append(@, "enable_slot")]
    /\ UNCHANGED <<cmd_lock, hw_cmd, dcbaa, portsc, port_log>>
    /\ UNCHANGED <<ringVars, evtVars, devVars, newVars, epVars>>

\* lines 141, 269-270: enable_slot returns the event's slot id, or `?` returns
DnSlot(t) ==
    /\ dn.pc = "enable"
    /\ sc[t].pc = "done"
    /\ dn' = IF sc[t].ret.kind = "Ok"
             THEN [dn EXCEPT !.pc = "reset", !.slot_id = SlotId(sc[t].evt)]
             ELSE [dn EXCEPT !.pc = "done", !.ret = sc[t].ret.kind]
    /\ sc' = [sc EXCEPT ![t] = [ScIdle EXCEPT !.calls = sc[t].calls]]
    /\ UNCHANGED <<cmd_lock, hw_cmd, dcbaa, portsc, port_log>>
    /\ UNCHANGED <<ringVars, evtVars, devVars, newVars, epVars>>

\* line 145: speed = ctrl.port_speed(port)
DnSpeed ==
    /\ dn.pc = "speed"
    /\ port_log' = Append(port_log, Access("read", "PORTSC", portsc))
    /\ dn' = [dn EXCEPT !.pc = "alloc", !.speed = PortSpeed(portsc)]
    /\ UNCHANGED <<cmd_lock, sc, hw_cmd, dcbaa, portsc>>
    /\ UNCHANGED <<ringVars, evtVars, devVars, newVars, epVars>>

\* lines 148-186: Device Context, Input Context and EP0 ring are allocated and
\* the Input Context is filled
DnAllocOk ==
    /\ dn.pc = "alloc"
    /\ dn' = [dn EXCEPT
                !.pc = "dcbaa",
                !.device_ctx = DeviceCtxPhys,
                !.input_ctx = InputCtxPhys,
                !.has_ring = TRUE,
                !.live = {<<"device_ctx", 0>>, <<"input_ctx", 0>>, <<"ep0_ring", 0>>},
                !.allocs = 3,
                !.input = [ZeroInputContext EXCEPT
                             !.add = <<3, 0>>,
                             !.slot = SlotContextNew(0, dn.speed, 1, dn.port + 1),
                             !.endpoints[0] =
                                 EndpointContextNew(4, Ep0MaxPacket(dn.speed), 0, 0,
                                                    <<RingPhys(ep0_ring), 0>>)],
                !.steps = Append(@, "contexts")]
    /\ UNCHANGED <<cmd_lock, sc, hw_cmd, dcbaa, portsc, port_log>>
    /\ UNCHANGED <<ringVars, evtVars, devVars, newVars, epVars>>

\* the regions UsbDevice::new allocates, in the order of lines 148-160
NewRegions == << <<"device_ctx", 0>>, <<"input_ctx", 0>>, <<"ep0_ring", 0>> >>

\* lines 148-160: the allocation after the first k fails and `?` returns;
\* nothing frees the k regions that exist (no handle is freed on scope exit)
DnAllocFail ==
    /\ dn.pc = "alloc"
    /\ \E k \in 0..2 :
          dn' = [dn EXCEPT !.pc = "done", !.ret = "OoRam",
                           !.live = {NewRegions[i] : i \in 1..k},
                           !.allocs = k]
    /\ UNCHANGED <<cmd_lock, sc, hw_cmd, dcbaa, portsc, port_log>>
    /\ UNCHANGED <<ringVars, evtVars, devVars, newVars, epVars>>

\* lines 189, 333-340: set_device_context(slot_id, device_ctx.phys)
DnSetContext ==
    /\ dn.pc = "dcbaa"
    /\ dcbaa' = [dcbaa EXCEPT ![dn.slot_id] = dn.device_ctx]
    /\ dn' = [dn EXCEPT !.pc = "address", !.steps = Append(@, "dcbaa")]
    /\ UNCHANGED <<cmd_lock, sc, hw_cmd, portsc, port_log>>
    /\ UNCHANGED <<ringVars, evtVars, devVars, newVars, epVars>>

\* lines 192-197: the Address Device command is submitted
DnAddress(t) ==
    /\ dn.pc = "address"
    /\ sc[t].pc = "idle"
    /\ sc' = [sc EXCEPT ![t] = ScStart(sc[t], AddressDeviceTrb(dn.input_ctx, dn.slot_id))]
    /\ dn' = [dn EXCEPT !.pc = "addressing", !.steps = Append(@, "address_device")]
    /\ UNCHANGED <<cmd_lock, hw_cmd, dcbaa, portsc, port_log>>
    /\ UNCHANGED <<ringVars, evtVars, devVars, newVars, epVars>>

\* lines 197-211: `?` returns the command's error, otherwise the device
DnAddressed(t) ==
    /\ dn.pc = "addressing"
    /\ sc[t].pc = "done"
    /\ dn' = [dn EXCEPT !.pc = "done", !.at = sc[t].at,
                        !.ret = IF sc[t].ret.kind = "Ok" THEN "Ok" ELSE sc[t].ret.kind]
    /\ sc' = [sc EXCEPT ![t] = [ScIdle EXCEPT !.calls = sc[t].calls]]
    /\ UNCHANGED <<cmd_lock, hw_cmd, dcbaa, portsc, port_log>>
    /\ UNCHANGED <<ringVars, evtVars, devVars, newVars, epVars>>

---------------------------------------------------------------------------
(* UsbDevice::configure_endpoint and queue_transfer (dev.rs lines 367-462) *)
(* on the device that UsbDevice::new returned                              *)

\* desc.rs line 497: endpoint numbers are the low four bits of the address
MaxEpNum == 15

\* desc.rs lines 496-513: EndpointDesc::number, is_in, transfer_type
Number(ep)       == BitAnd(ep.endpoint_address, MaxEpNum)
IsIn(ep)         == BitAnd(ep.endpoint_address, 128) # 0
TransferType(ep) == BitAnd(ep.attributes, 3)

\* the endpoint descriptors handed to configure_endpoint: every endpoint
\* number and direction, every transfer type (5 is isochronous with a
\* synchronisation type in bits 3:2)
EndpointDescs ==
    [endpoint_address : {n + d : n \in 0..MaxEpNum, d \in {0, 128}},
     attributes       : {0, 1, 2, 3, 5},
     max_packet_size  : {8},
     interval         : {10}]

ZeroDesc == [endpoint_address |-> 0, attributes |-> 0, max_packet_size |-> 0,
             interval |-> 0]

\* the speeds a port reports for an attached device
DeviceSpeeds == {SPEED_FULL, SPEED_LOW, SPEED_HIGH, SPEED_SUPER}

\* lines 375 and 443: (ep_num as usize * 2) + if is_in { 1 } else { 0 }
DciNoDirection(ep_num, is_in) == ep_num * 2

Dci(ep_num, is_in) == ep_num * 2 + (IF is_in THEN 1 ELSE 0)

\* lines 376 and 444: dci - 1 on usize; -1 stands for the underflow at dci = 0
RingIdx(dci) == dci - 1

\* lines 389-398: xHCI endpoint type of a USB transfer type and direction
XhciEpTypeNoDirection(ep_type, is_in) ==
    IF ep_type \in 1..3 THEN ep_type ELSE 4

XhciEpType(ep_type, is_in) ==
    IF ep_type = 0 THEN 4
    ELSE IF ep_type = 1 /\ ~is_in THEN 1
    ELSE IF ep_type = 1 /\ is_in THEN 5
    ELSE IF ep_type = 2 /\ ~is_in THEN 2
    ELSE IF ep_type = 2 /\ is_in THEN 6
    ELSE IF ep_type = 3 /\ ~is_in THEN 3
    ELSE IF ep_type = 3 /\ is_in THEN 7
    ELSE 4

\* u32::is_power_of_two, trailing_zeros, leading_zeros
RECURSIVE BitLength(_)
BitLength(x) == IF x = 0 THEN 0 ELSE 1 + BitLength(x \div 2)

RECURSIVE TrailingZeros(_)
TrailingZeros(x) ==
    IF x = 0 THEN 32 ELSE IF x % 2 = 1 THEN 0 ELSE 1 + TrailingZeros(x \div 2)

LeadingZeros(x) == 32 - BitLength(x)

IsPowerOfTwo(x) == x # 0 /\ BitAnd(x, x - 1) = 0

\* lines 401-413: the xHCI interval of a descriptor interval; the sum of the
\* last line is given as the u8 addition would have it without wrapping
XhciIntervalFloor(speed, interval) ==
    IF speed >= SPEED_HIGH
    THEN (IF interval >= 1 THEN interval - 1 ELSE 0)
    ELSE (BitLength(Max(interval, 1)) - 1) + 3

XhciInterval(speed, interval) ==
    IF speed >= SPEED_HIGH
    THEN (IF interval >= 1 THEN interval - 1 ELSE 0)
    ELSE LET ms        == Max(interval, 1)
             log2_ceil == IF IsPowerOfTwo(ms)
                          THEN TrailingZeros(ms) % (U8_MAX + 1)
                          ELSE (32 - LeadingZeros(ms)) % (U8_MAX + 1)
         IN  log2_ceil + 3

\* a u32 of flags as <<bits 15:0, bits 31:16>>: 1 << n, and a | b
OneShl(n) == IF n < 16 THEN <<Shl(1, n), 0>> ELSE <<0, Shl(1, n - 16)>>

FlagsOr(a, b) == <<BitOr(a[1], b[1]), BitOr(a[2], b[2])>>

\* Option<Ring> in ep_rings
NoRing      == [some |-> FALSE, ring |-> RingNew(Ep0N, 0)]
SomeRing(r) == [some |-> TRUE, ring |-> r]

\* the physical base of the ring that Ring::new allocates for ring_idx
EpRingPhys(ring_idx) == PhysBase(16 + ring_idx)

CfIdle == [pc |-> "idle", ep |-> ZeroDesc, dci |-> 0, ring_idx |-> 0,
           ring_phys |-> 0, ret |-> "none"]

QtIdle == [pc |-> "idle", ep_num |-> 0, is_in |-> FALSE, dci |-> 0,
           ring_idx |-> 0, at |-> 0, ret |-> "none"]

\* lines 425-429
ConfigureEndpointTrb(input_ctx, slot_id) ==
    [param |-> <<input_ctx, 0>>, status |-> 0,
     control |-> BitOr(Shl(CONFIGURE_ENDPOINT, 10), Shl(slot_id, 24))]

\* a plausible slip: the Normal TRB is built without the IOC bit
NormalTrbNoIoc(buf_phys, len) ==
    [param |-> <<buf_phys, 0>>, status |-> len,
     control |-> Shl(NORMAL, 10)]

\* lines 450-454: Normal TRB with IOC
NormalTrb(buf_phys, len) ==
    [param |-> <<buf_phys, 0>>, status |-> len,
     control |-> BitOr(Shl(NORMAL, 10), Shl(1, 5))]

\* lines 368-376: ep_num, is_in, ep_type, dci, ring_idx
CfgBegin(t, ep) ==
    /\ dn.pc = "done" /\ dn.ret = "Ok"
    /\ cf[t].pc = "idle"
    /\ qt[t].pc = "idle"
    /\ sc[t].pc = "idle"
    /\ cf' = [cf EXCEPT ![t] =
                [CfIdle EXCEPT !.pc = "ring", !.ep = ep,
                               !.dci = Dci(Number(ep), IsIn(ep)),
                               !.ring_idx = RingIdx(Dci(Number(ep), IsIn(ep)))]]
    /\ UNCHANGED <<ep_rings, qt, iv, lk, drv, ringVars, evtVars, devVars, newVars, cmdVars>>

\* lines 376, 415: with dci = 0 the subtraction underflows: a build with
\* overflow checks panics at line 376; one without them allocates the ring,
\* writes the flags and panics on endpoints[usize::MAX] at line 415
CfgUnderflow(t) ==
    /\ cf[t].pc = "ring"
    /\ cf[t].dci = 0
    /\ cf' = [cf EXCEPT ![t].pc = "done", ![t].ret = "Panic"]
    /\ \E checked \in BOOLEAN :
          dn' = IF checked THEN dn
                ELSE [dn EXCEPT !.input.drop = <<0, 0>>,
                                !.input.add = FlagsOr(OneShl(0), <<1, 0>>)]
    /\ UNCHANGED <<cmd_lock, sc, hw_cmd, dcbaa, portsc, port_log>>
    /\ UNCHANGED <<ep_rings, qt, iv, lk, drv, ringVars, evtVars, devVars, newVars>>

\* lines 379-417: Ring::new, then the Input Context: drop flags, add flags,
\* endpoints[ring_idx]
CfgRingOk(t) ==
    /\ cf[t].pc = "ring"
    /\ cf[t].dci # 0
    /\ LET c         == cf[t]
           ring_phys == EpRingPhys(c.ring_idx)
           interval  == XhciInterval(dn.speed, c.ep.interval) % (U8_MAX + 1)
       IN  /\ cf' = [cf EXCEPT ![t].pc = "store", ![t].ring_phys = ring_phys]
           /\ dn' = [dn EXCEPT
                       !.live = @ \cup {<<"ep_ring", c.ring_idx>>},
                       !.allocs = @ + 1,
                       !.input.drop = <<0, 0>>,
                       !.input.add = FlagsOr(OneShl(c.dci), <<1, 0>>),
                       !.input.endpoints[c.ring_idx] =
                           EndpointContextNew(XhciEpType(TransferType(c.ep), IsIn(c.ep)),
                                              c.ep.max_packet_size, 0, interval,
                                              <<ring_phys, 0>>)]
    /\ UNCHANGED <<cmd_lock, sc, hw_cmd, dcbaa, portsc, port_log>>
    /\ UNCHANGED <<ep_rings, qt, iv, lk, drv, ringVars, evtVars, devVars, newVars>>

\* line 379: Ring::new(host, 256)? fails
CfgRingFail(t) ==
    /\ cf[t].pc = "ring"
    /\ cf[t].dci # 0
    /\ cf' = [cf EXCEPT ![t].pc = "done", ![t].ret = "OoRam"]
    /\ UNCHANGED <<ep_rings, qt, iv, lk, drv, ringVars, evtVars, devVars, newVars, cmdVars>>

\* lines 420-422: ep_rings[ring_idx] = Some(ring) under the map's mutex
CfgStore(t) ==
    /\ cf[t].pc = "store"
    /\ ep_rings' = [ep_rings EXCEPT ![cf[t].ring_idx] =
                        SomeRing(RingNew(Ep0N, cf[t].ring_phys))]
    /\ cf' = [cf EXCEPT ![t].pc = "submit"]
    /\ UNCHANGED <<qt, iv, lk, drv, ringVars, evtVars, devVars, newVars, cmdVars>>

\* lines 425-430: build the Configure Endpoint TRB and submit it
CfgSubmit(t) ==
    /\ cf[t].pc = "submit"
    /\ sc[t].pc = "idle"
    /\ sc' = [sc EXCEPT ![t] =
                ScStart(sc[t], ConfigureEndpointTrb(dn.input_ctx, dn.slot_id))]
    /\ cf' = [cf EXCEPT ![t].pc = "submitted"]
    /\ UNCHANGED <<cmd_lock, hw_cmd, dn, dcbaa, portsc, port_log>>
    /\ UNCHANGED <<ep_rings, qt, iv, lk, drv, ringVars, evtVars, devVars, newVars>>

\* lines 430-432: `?` returns the command's error, otherwise Ok(())
CfgReturn(t) ==
    /\ cf[t].pc = "submitted"
    /\ sc[t].pc = "done"
    /\ cf' = [cf EXCEPT ![t].pc = "done", ![t].ret = sc[t].ret.kind]
    /\ sc' = [sc EXCEPT ![t] = [ScIdle EXCEPT !.calls = sc[t].calls]]
    /\ UNCHANGED <<cmd_lock, hw_cmd, dn, dcbaa, portsc, port_log>>
    /\ UNCHANGED <<ep_rings, qt, iv, lk, drv, ringVars, evtVars, devVars, newVars>>

\* dev.rs lines 485-487, Drop for UsbDevice: disable_slot(slot_id), whose
\* result is ignored
DropBegin(t) ==
    /\ dn.pc = "done" /\ dn.ret = "Ok"
    /\ cf[t].pc \in {"idle", "done"}
    /\ sc[t].pc = "idle"
    /\ sc' = [sc EXCEPT ![t] = ScStart(sc[t], DisableSlotTrb(dn.slot_id))]
    /\ dn' = [dn EXCEPT !.pc = "disable", !.steps = Append(@, "disable_slot")]
    /\ UNCHANGED <<cmd_lock, hw_cmd, dcbaa, portsc, port_log>>
    /\ UNCHANGED <<ringVars, evtVars, devVars, newVars, epVars>>

\* the regions the endpoint rings of the map occupy
MapRegions == {<<"ep_ring", i>> : i \in {j \in 0..30 : ep_rings[j].some}}

\* lines 489-502: every ring of the map is taken and freed; the EP0 ring is
\* swapped for a new one-slot ring (Ring::new succeeds) and freed.  The
\* contexts and the new ring are left as they are.
DropFree(t) ==
    /\ dn.pc = "disable"
    /\ sc[t].pc = "done"
    /\ sc' = [sc EXCEPT ![t] = [ScIdle EXCEPT !.calls = sc[t].calls]]
    /\ ep_rings' = [i \in 0..30 |-> NoRing]
    /\ dn' = [dn EXCEPT !.pc = "dropped",
                        !.has_ring = FALSE,
                        !.live = (@ \ (MapRegions \cup {<<"ep0_ring", 0>>}))
                                     \cup {<<"spare_ring", 0>>},
                        !.allocs = @ + 1,
                        !.frees = @ + Cardinality(MapRegions) + 1,
                        !.steps = Append(@, "free")]
    /\ UNCHANGED <<cmd_lock, hw_cmd, dcbaa, portsc, port_log>>
    /\ UNCHANGED <<cf, qt, iv, lk, drv, ringVars, evtVars, devVars, newVars>>

\* lines 489-501: the rings of the map are freed, then Ring::new(host, 1)
\* fails and unwrap panics before the EP0 ring is freed
DropPanic(t) ==
    /\ dn.pc = "disable"
    /\ sc[t].pc = "done"
    /\ sc' = [sc EXCEPT ![t] = [ScIdle EXCEPT !.calls = sc[t].calls]]
    /\ ep_rings' = [i \in 0..30 |-> NoRing]
    /\ dn' = [dn EXCEPT !.pc = "dropped",
                        !.ret = "Panic",
                        !.live = @ \ MapRegions,
                        !.frees = @ + Cardinality(MapRegions),
                        !.steps = Append(@, "free")]
    /\ UNCHANGED <<cmd_lock, hw_cmd, dcbaa, portsc, port_log>>
    /\ UNCHANGED <<cf, qt, iv, lk, drv, ringVars, evtVars, devVars, newVars>>

\* lines 443-457, called once configure_endpoint has returned: dci, ring_idx,
\* lookup under the map's mutex, enqueue; the index panics outside the 31
\* entries of ep_rings (and the subtraction, with overflow checks, at dci = 0)
QtEnqueue(t, ep_num, is_in) ==
    /\ cf[t].pc = "done"
    /\ qt[t].pc = "idle"
    /\ LET dci      == Dci(ep_num, is_in)
           ring_idx == RingIdx(dci)
           q        == [QtIdle EXCEPT !.ep_num = ep_num, !.is_in = is_in,
                                      !.dci = dci, !.ring_idx = ring_idx]
       IN  IF ring_idx \notin 0..30
           THEN /\ qt' = [qt EXCEPT ![t] = [q EXCEPT !.pc = "done", !.ret = "Panic"]]
                /\ UNCHANGED ep_rings
           ELSE IF ~ep_rings[ring_idx].some
           THEN /\ qt' = [qt EXCEPT ![t] = [q EXCEPT !.pc = "done",
                                                     !.ret = "InvEndpoint"]]
                /\ UNCHANGED ep_rings
           ELSE /\ qt' = [qt EXCEPT ![t] =
                            [q EXCEPT !.pc = "bell",
                                      !.at = EnqueueAddr(ep_rings[ring_idx].ring)]]
                /\ ep_rings' = [ep_rings EXCEPT ![ring_idx].ring =
                                   Enqueue(@, NormalTrb(PhysBase(5), MaxLen))]
    /\ UNCHANGED <<cf, iv, lk, drv, ringVars, evtVars, devVars, newVars, cmdVars>>

\* lines 459-461: ring_doorbell(slot_id, dci as u8), Ok(())
QtDoorbell(t) ==
    /\ qt[t].pc = "bell"
    /\ doorbells' = Append(doorbells, <<dn.slot_id, qt[t].dci>>)
    /\ qt' = [qt EXCEPT ![t].pc = "done", ![t].ret = "Ok"]
    /\ UNCHANGED <<ep0_ring, ep0_lock, pc, call, dma, hw_ep0>>
    /\ UNCHANGED <<cf, ep_rings, iv, lk, drv, ringVars, evtVars, newVars, cmdVars>>

\* lines 401-413 applied to one speed and one descriptor interval
ComputeInterval(speed, interval) ==
    /\ ~iv.set
    /\ iv' = [set |-> TRUE, speed |-> speed, interval |-> interval,
              xhci |-> XhciInterval(speed, interval)]
    /\ UNCHANGED <<cf, ep_rings, qt, lk, drv, ringVars, evtVars, devVars, newVars, cmdVars>>

---------------------------------------------------------------------------
(* The four mutexes, and every operation that touches one as the sequence  *)
(* of lock, unlock, call and branch statements of its code                 *)

Mutexes == {"cmd_ring", "event_ring", "ep0_ring", "ep_rings"}

\* one statement: a lock() of mutex m, the drop of its guard, work w that
\* takes no lock, a call of function f, a branch to one of the positions
\* `to`, a return
Lock(m)    == [op |-> "lock", arg |-> m, to |-> {}]
Unlock(m)  == [op |-> "unlock", arg |-> m, to |-> {}]
Work(w)    == [op |-> "work", arg |-> w, to |-> {}]
CallFn(f)  == [op |-> "call", arg |-> f, to |-> {}]
Branch(to) == [op |-> "branch", arg |-> "", to |-> to]
Ret        == [op |-> "return", arg |-> "", to |-> {}]

\* xhci.rs lines 129-176, init: the cmd_ring guard over the CRCR write, then
\* the event_ring guard over the ERSTSZ, ERSTBA and ERDP writes
InitCode ==
    << Lock("cmd_ring"), Work("mmio"), Unlock("cmd_ring"),
       Lock("event_ring"), Work("mmio"), Work("mmio"), Work("erdp"),
       Unlock("event_ring"), Ret >>

\* xhci.rs lines 209-216, update_erdp: the guard lives to the end of the function
UpdateErdpCode ==
    << Lock("event_ring"), Work("erdp"), Unlock("event_ring"), Ret >>

\* xhci.rs lines 219-240, wait_command: the guard lives in the inner block;
\* None goes round the loop, as does an event of another type after update_erdp
WaitCommandCode ==
    << Lock("event_ring"), Work("try_dequeue"), Unlock("event_ring"),
       Branch({1, 5}), CallFn("update_erdp"), Branch({1, 7}), Ret >>

\* a plausible slip: drop(event_ring) is missing, so the guard lives to the
\* end of poll_event, over the call of update_erdp
PollEventCodeHeld ==
    << Lock("event_ring"), Work("try_dequeue"),
       Branch({4, 5}), CallFn("update_erdp"), Unlock("event_ring"), Ret >>

\* xhci.rs lines 243-251, poll_event
PollEventCode ==
    << Lock("event_ring"), Work("try_dequeue"), Unlock("event_ring"),
       Branch({5, 6}), CallFn("update_erdp"), Ret >>

\* xhci.rs lines 254-260, submit_command
SubmitCommandCode ==
    << Lock("cmd_ring"), Work("enqueue"), Unlock("cmd_ring"),
       Work("doorbell"), CallFn("wait_command"), Ret >>

\* dev.rs lines 215-328, control_transfer: the `?` of line 229 returns with
\* the guard dropped (positions 9, 10); the wait loop calls poll_event
ControlTransferCode ==
    << Lock("ep0_ring"), Branch({3, 9}), Work("enqueue"), Unlock("ep0_ring"),
       Work("doorbell"), CallFn("poll_event"), Branch({6, 8}), Ret,
       Unlock("ep0_ring"), Ret >>

\* dev.rs lines 361-432, configure_endpoint: the `?` of Ring::new at line 379
\* returns before any lock is taken
ConfigureEndpointCode ==
    << Branch({2, 7}), Work("input_ctx"), Lock("ep_rings"), Work("store"),
       Unlock("ep_rings"), CallFn("submit_command"), Ret >>

\* dev.rs lines 436-462, queue_transfer: the `?` of line 447 returns with the
\* guard dropped (positions 7, 8)
QueueTransferCode ==
    << Lock("ep_rings"), Branch({3, 7}), Work("enqueue"), Unlock("ep_rings"),
       Work("doorbell"), Ret, Unlock("ep_rings"), Ret >>

\* dev.rs lines 485-504, Drop for UsbDevice: disable_slot (xhci.rs 273-282,
\* a submit_command), the map's guard over the frees, then the temporary
\* ep0_ring guard of the mem::replace statement
DropCode ==
    << CallFn("submit_command"), Lock("ep_rings"), Work("free"),
       Unlock("ep_rings"), Lock("ep0_ring"), Work("replace"),
       Unlock("ep0_ring"), Work("free"), Ret >>

Code(f) ==
    CASE f = "init"               -> InitCode
      [] f = "update_erdp"        -> UpdateErdpCode
      [] f = "wait_command"       -> WaitCommandCode
      [] f = "poll_event"         -> PollEventCode
      [] f = "submit_command"     -> SubmitCommandCode
      [] f = "control_transfer"   -> ControlTransferCode
      [] f = "configure_endpoint" -> ConfigureEndpointCode
      [] f = "queue_transfer"     -> QueueTransferCode
      [] f = "drop"               -> DropCode

\* what a context may call on the shared controller and on the device
ControllerOps == {"submit_command", "poll_event"}
DeviceOps     == {"control_transfer", "configure_endpoint", "queue_transfer"}

\* XhciCtrl::new is running init (xhci.rs line 125) on the context that builds
\* the controller; nothing is locked and the device exists
LkInit ==
    [owner |-> [m \in Mutexes |-> 0],
     stack |-> [t \in Ctx |-> IF t = 1 THEN <<[fn |-> "init", pc |-> 1]>> ELSE <<>>],
     span  |-> [t \in Ctx |-> <<>>],
     spans |-> {},
     dev   |-> "live"]

Running(t) == lk.stack[t] # <<>>
Top(t)     == lk.stack[t][Len(lk.stack[t])]
Instr(t)   == Code(Top(t).fn)[Top(t).pc]
At(t, op)  == Running(t) /\ Instr(t).op = op
Held(t)    == {m \in Mutexes : lk.owner[m] = t}

\* the stack with the position of its top frame set to k
Goto(st, k) == [st EXCEPT ![Len(st)].pc = k]

\* the statements made under the event_ring guard so far
Noted(t, what) ==
    IF lk.owner["event_ring"] = t THEN Append(lk.span[t], what) ELSE lk.span[t]

lkRest == <<cf, ep_rings, qt, iv, drv, ringVars, evtVars, devVars, newVars, cmdVars>>

\* a context calls an operation: none while init runs (it has &mut self), a
\* device operation while the device lives, the drop when no other context
\* is inside the device (drop has &mut self)
LkEnter(t, f) ==
    /\ ~Running(t)
    /\ \A u \in Ctx : Running(u) => lk.stack[u][1].fn # "init"
    /\ f \in DeviceOps \cup {"drop"} => lk.dev = "live"
    /\ f = "drop" => \A u \in Ctx : Running(u) => lk.stack[u][1].fn \notin DeviceOps
    /\ lk' = [lk EXCEPT !.stack[t] = <<[fn |-> f, pc |-> 1]>>,
                        !.dev = IF f = "drop" THEN "dropped" ELSE @]
    /\ UNCHANGED lkRest

\* spin::Mutex::lock: proceeds when the mutex is free, spins otherwise
LkLock(t) ==
    /\ At(t, "lock")
    /\ lk.owner[Instr(t).arg] = 0
    /\ lk' = [lk EXCEPT !.owner[Instr(t).arg] = t,
                        !.stack[t] = Goto(@, Top(t).pc + 1),
                        !.span[t] = IF Instr(t).arg = "event_ring" THEN <<>> ELSE @]
    /\ UNCHANGED lkRest

\* the guard is dropped
LkUnlock(t) ==
    /\ At(t, "unlock")
    /\ lk' = [lk EXCEPT !.owner[Instr(t).arg] = 0,
                        !.stack[t] = Goto(@, Top(t).pc + 1),
                        !.spans = IF Instr(t).arg = "event_ring"
                                  THEN @ \cup {lk.span[t]} ELSE @]
    /\ UNCHANGED lkRest

LkWork(t) ==
    /\ At(t, "work")
    /\ lk' = [lk EXCEPT !.stack[t] = Goto(@, Top(t).pc + 1),
                        !.span[t] = Noted(t, Instr(t).arg)]
    /\ UNCHANGED lkRest

LkBranch(t, k) ==
    /\ At(t, "branch")
    /\ k \in Instr(t).to
    /\ lk' = [lk EXCEPT !.stack[t] = Goto(@, k)]
    /\ UNCHANGED lkRest

LkCallFn(t) ==
    /\ At(t, "call")
    /\ lk' = [lk EXCEPT !.stack[t] = Append(@, [fn |-> Instr(t).arg, pc |-> 1]),
                        !.span[t] = Noted(t, "call")]
    /\ UNCHANGED lkRest

\* return to the statement after the call, or to the caller of the operation
LkReturn(t) ==
    /\ At(t, "return")
    /\ LET rest == SubSeq(lk.stack[t], 1, Len(lk.stack[t]) - 1)
       IN  lk' = [lk EXCEPT !.stack[t] =
                     IF rest = <<>> THEN rest ELSE Goto(rest, rest[Len(rest)].pc + 1)]
    /\ UNCHANGED lkRest

---------------------------------------------------------------------------
(* The class drivers above UsbDevice: MscDevice::scsi_command and the waiters *)

MscMaxLen == 2   \* longest caller buffer handed to scsi_command

\* endpoint numbers of the mass-storage interface's bulk pair
MscEpIn  == 1
MscEpOut == 2

\* slot of the second device, the one beside Device
OtherSlot == 2

\* the devices whose owners wait for a transfer, by slot
Waiters == {Device.slot_id, OtherSlot}

\* most reads one owner queues: the first and the one its poller re-queues
MaxReads == 2

MscCodes == {SUCCESS, SHORT_PACKET, STALL_ERROR}

\* msc.rs lines 436-451, wait_transfer, on one event poll_event returned: only
\* the slot is compared; codes 1 and 13 yield evt.transfer_length(), every
\* other code XferFail(code); an event of another slot goes round the loop
WaitTransferResult(evt, slot_id) ==
    IF SlotId(evt) # slot_id THEN NoRet
    ELSE IF CompletionCode(evt) \in {1, 13}
         THEN [kind |-> "Ok", n |-> TransferLength(evt)]
         ELSE [kind |-> "XferFail", n |-> CompletionCode(evt)]

\* hid.rs lines 643-663, poll_keyboard, on one event poll_event returned: the
\* slot is compared, codes 1 and 13 yield the report, everything else None
PollKeyboardResult(evt, slot_id) ==
    IF SlotId(evt) # slot_id THEN NoRet
    ELSE IF CompletionCode(evt) \in {1, 13}
         THEN [kind |-> "Ok", n |-> TransferLength(evt)]
         ELSE NoRet

\* one transfer handed to UsbDevice::queue_transfer
Xfer(what, ep_num, is_in, len) ==
    [what |-> what, ep_num |-> ep_num, is_in |-> is_in, len |-> len]

MsIdle ==
    [pc |-> "idle",
     data |-> [some |-> FALSE, bytes |-> <<>>],
     data_len |-> 0,
     direction_in |-> FALSE,
     buf |-> <<>>,
     queued |-> <<>>,
     hw |-> 0,
     evt |-> ZeroTrb,
     transferred |-> 0,
     csw |-> 0,
     live |-> 0,
     ret |-> NoRet]

WtIdle == [pc |-> "idle", queued |-> 0, posted |-> 0, got |-> NoRet, dropped |-> <<>>]

DrvInit == [msc |-> MsIdle, wt |-> [d \in Waiters |-> WtIdle]]

\* what the class drivers leave alone besides the event ring and the doorbells
drvRest == <<cf, ep_rings, qt, iv, lk, ringVars, newVars, cmdVars,
             ep0_ring, ep0_lock, pc, call, dma, hw_ep0>>

\* the caller's buffers scsi_command is entered with
MscData ==
    {[some |-> FALSE, bytes |-> <<>>]} \cup
    {[some |-> TRUE, bytes |-> [i \in 1..n |-> CallerByte(i)]] : n \in 0..MscMaxLen}

\* msc.rs lines 363-385: data_len from the caller's buffer, the three buffers,
\* the CBW queued on the bulk OUT endpoint (31 bytes)
MsBegin(data, direction_in) ==
    LET m == drv.msc
        n == IF data.some THEN Len(data.bytes) ELSE 0
    IN  /\ m.pc = "idle"
        /\ drv' = [drv EXCEPT !.msc =
              [m EXCEPT !.pc = "cbw_wait",
                        !.data = data,
                        !.data_len = n,
                        !.direction_in = direction_in,
                        !.buf = [i \in 1..n |-> Uninit],
                        !.queued = <<Xfer("cbw", MscEpOut, FALSE, 31)>>,
                        !.live = IF n > 0 THEN 3 ELSE 2]]
        /\ doorbells' = Append(doorbells, <<Device.slot_id, Dci(MscEpOut, FALSE)>>)
        /\ UNCHANGED <<evtVars, drvRest>>

\* msc.rs lines 367-373: PhysMem::alloc fails and `?` returns; the buffers
\* allocated before it stay allocated
MsAllocFail(data) ==
    LET m == drv.msc
        n == IF data.some THEN Len(data.bytes) ELSE 0
    IN  /\ m.pc = "idle"
        /\ \E k \in 0..(IF n > 0 THEN 2 ELSE 1) :
              drv' = [drv EXCEPT !.msc =
                  [m EXCEPT !.pc = "done",
                            !.data = data,
                            !.data_len = n,
                            !.live = k,
                            !.ret = [kind |-> "OoRam", n |-> 0]]]
        /\ UNCHANGED <<evtVars, doorbells, drvRest>>

\* msc.rs lines 412-413: the CSW queued on the bulk IN endpoint (13 bytes)
MsQueueCsw(m) ==
    [m EXCEPT !.pc = "csw_wait",
              !.queued = Append(@, Xfer("csw", MscEpIn, TRUE, 13))]

CopyPrefix(dst, src, n) ==
    [i \in 1..Len(dst) |-> IF i <= n THEN src[i] ELSE dst[i]]

\* scsi_command from the return of one wait_transfer to the next wait or to
\* its own return: msc.rs lines 385-433
MsAfter(m, res) ==
    IF res.kind = "XferFail" THEN [m EXCEPT !.pc = "done", !.ret = res]
    ELSE IF m.pc = "cbw_wait" THEN
        IF m.data_len > 0 /\ m.data.some
        THEN IF m.direction_in
             THEN [m EXCEPT !.pc = "data_wait",
                            !.queued = Append(@, Xfer("data", MscEpIn, TRUE, m.data_len))]
             ELSE [m EXCEPT !.pc = "data_wait",
                            !.buf = m.data.bytes,
                            !.queued = Append(@, Xfer("data", MscEpOut, FALSE, m.data_len))]
        ELSE MsQueueCsw([m EXCEPT !.transferred = 0])
    ELSE IF m.pc = "data_wait" THEN
        IF m.direction_in
        THEN MsQueueCsw([m EXCEPT
                 !.data.bytes = CopyPrefix(@, m.buf, Min(res.n, Len(m.data.bytes))),
                 !.transferred = res.n])
        ELSE MsQueueCsw([m EXCEPT !.transferred = res.n])
    ELSE [m EXCEPT !.pc = "done",
                   !.live = 0,
                   !.ret = IF m.csw = 0
                           THEN [kind |-> "Ok", n |-> m.transferred]
                           ELSE [kind |-> "XferFail", n |-> m.csw]]

\* one turn of wait_transfer's loop inside scsi_command, and what follows its
\* return
MsPoll ==
    LET m == drv.msc
        r == PollEventResult(event_ring, erdp)
        res == IF r.ret.some THEN WaitTransferResult(r.ret.trb, Device.slot_id) ELSE NoRet
        a == MsAfter(IF m.pc = "data_wait" THEN [m EXCEPT !.evt = r.ret.trb] ELSE m, res)
    IN  /\ m.pc \in {"cbw_wait", "data_wait", "csw_wait"}
        /\ event_ring' = r.ring
        /\ erdp' = r.erdp
        /\ IF res.kind = "none"
           THEN UNCHANGED <<drv, doorbells>>
           ELSE /\ drv' = [drv EXCEPT !.msc = a]
                /\ doorbells' =
                     IF Len(a.queued) > Len(m.queued)
                     THEN Append(doorbells,
                                 <<Device.slot_id,
                                   Dci(a.queued[Len(a.queued)].ep_num,
                                       a.queued[Len(a.queued)].is_in)>>)
                     ELSE doorbells
        /\ UNCHANGED <<hw_evt, deq_log, ccs_toggles, drvRest>>

\* The controller executes the next queued bulk transfer: on an IN data phase
\* the device's bytes reach the buffer, on the CSW the status byte does, and a
\* Transfer Event carries the completion code and the residual
HwBulk(code, residual, status) ==
    LET m == drv.msc
        q == m.queued[m.hw + 1]
        ok == code \in {SUCCESS, SHORT_PACKET}
        moved == q.len - residual
    IN  /\ m.hw < Len(m.queued)
        /\ m.pc # "done"
        /\ HwCanPost
        /\ residual <= q.len
        /\ q.what # "data" => residual = 0
        /\ (code = SUCCESS) => residual = 0
        /\ (code = SHORT_PACKET) => residual > 0
        /\ (q.what = "csw" /\ ok) \/ status = 0
        /\ HwWrite(EventTrb(TRANSFER_EVENT, Device.slot_id, code, residual))
        /\ drv' = [drv EXCEPT !.msc =
              [m EXCEPT !.hw = @ + 1,
                        !.buf = IF q.what = "data" /\ q.is_in
                                THEN [i \in 1..Len(m.buf) |->
                                        IF i <= moved THEN DeviceByte(i) ELSE m.buf[i]]
                                ELSE @,
                        !.csw = IF q.what = "csw" /\ ok THEN status ELSE @]]
        /\ UNCHANGED <<erdp, deq_log, ccs_toggles, doorbells, drvRest>>

\* hid.rs lines 626-634, queue_read, and msc.rs queue_transfer before
\* wait_transfer: the owner of device d queues one transfer and will wait
WtQueue(d) ==
    LET w == drv.wt[d]
    IN  /\ w.pc = "idle"
        /\ drv' = [drv EXCEPT !.wt[d] = [w EXCEPT !.pc = "wait", !.queued = 1]]
        /\ doorbells' = Append(doorbells, <<d, Dci(MscEpIn, TRUE)>>)
        /\ UNCHANGED <<evtVars, drvRest>>

\* the controller completes a queued transfer of device d
HwXfer(d, code) ==
    LET w == drv.wt[d]
    IN  /\ w.posted < w.queued
        /\ HwCanPost
        /\ HwWrite(EventTrb(TRANSFER_EVENT, d, code, 0))
        /\ drv' = [drv EXCEPT !.wt[d].posted = @ + 1]
        /\ UNCHANGED <<erdp, deq_log, ccs_toggles, doorbells, drvRest>>

\* One turn of the owner's wait loop.  Device is a keyboard, read through
\* HidDevice::read_keyboard (hid.rs lines 688-700: poll_keyboard until a
\* report; poll_keyboard re-queues the read after a report); the other device
\* is a mass-storage device inside wait_transfer.  Whatever poll_event returned
\* is gone from the event ring; an event the poller does not take is recorded
\* in dropped
WtPoll(d) ==
    LET w == drv.wt[d]
        r == PollEventResult(event_ring, erdp)
        hid == d = Device.slot_id
        res == IF ~r.ret.some THEN NoRet
               ELSE IF hid THEN PollKeyboardResult(r.ret.trb, d)
               ELSE WaitTransferResult(r.ret.trb, d)
        requeue == hid /\ res.kind = "Ok" /\ w.queued < MaxReads
    IN  /\ w.pc = "wait"
        /\ event_ring' = r.ring
        /\ erdp' = r.erdp
        /\ drv' = [drv EXCEPT !.wt[d] =
              IF res.kind # "none"
              THEN [w EXCEPT !.pc = "done", !.got = res,
                             !.queued = IF requeue THEN @ + 1 ELSE @]
              ELSE IF r.ret.some THEN [w EXCEPT !.dropped = Append(@, r.ret.trb)]
              ELSE w]
        /\ doorbells' = IF requeue
                        THEN Append(doorbells, <<d, Dci(MscEpIn, TRUE)>>)
                        ELSE doorbells
        /\ UNCHANGED <<hw_evt, deq_log, ccs_toggles, drvRest>>

---------------------------------------------------------------------------
(* Initial state: the controller and one addressed device after construction *)

Init ==
    /\ cmd_ring = RingNew(RingN, PhysBase(1))
    /\ enq_log = [trb |-> ZeroTrb, at |-> 0, pcs |-> 1]
    /\ enq_count = 0
    /\ link_toggles = 0
    /\ event_ring = EventRingNew(EvtN, PhysBase(2))
    /\ erdp = PhysBase(2)
    /\ hw_evt = [index |-> 0, cycle |-> 1, wraps |-> 0]
    /\ deq_log = [tick |-> 0, ret |-> None]
    /\ ccs_toggles = 0
    /\ ep0_ring = RingNew(Ep0N, PhysBase(4))
    /\ ep0_lock = 0
    /\ pc = [t \in Ctx |-> "idle"]
    /\ call = [t \in Ctx |-> Idle]
    /\ doorbells = <<>>
    /\ dma = [live |-> {}, mem |-> [b \in BufIds |-> <<>>],
              calls |-> 0, fault |-> "none"]
    /\ hw_ep0 = [index |-> 0, cycle |-> 1, armed |-> FALSE, halted |-> FALSE]
    /\ ctor = [pc |-> "start", init_mmio |-> 0, mmio |-> 0, mmio_size |-> 0,
               cap_length |-> 0, db_offset |-> 0, rts_offset |-> 0,
               max_slots |-> 0, max_scratchpad |-> 0, allocs |-> 0,
               owned |-> {}, ret |-> "none"]
    /\ host = [mapped |-> {}, dma |-> {}, sp_array |-> <<>>]
    /\ regs = [caps |-> [caplength |-> 0, hcs1 |-> 0, hcs2 |-> <<0, 0>>,
                         dboff |-> 0, rtsoff |-> 0],
               usbcmd |-> 0, usbsts |-> USBSTS_HCH, config |-> 0, booted |-> FALSE]
    /\ hw_log = <<>>
    /\ cmd_lock = 0
    /\ sc = [t \in Ctx |-> ScIdle]
    /\ hw_cmd = [index |-> 0, cycle |-> 1, armed |-> FALSE, slots |-> 0,
                 done |-> {}, stray |-> 0]
    /\ dn = DnIdle
    /\ dcbaa = DcbaaNew
    /\ portsc = PORTSC_CCS + PORTSC_PP + PORTSC_CSC
    /\ port_log = <<>>
    /\ cf = [t \in Ctx |-> CfIdle]
    /\ ep_rings = [i \in 0..30 |-> NoRing]
    /\ qt = [t \in Ctx |-> QtIdle]
    /\ iv = [set |-> FALSE, speed |-> 0, interval |-> 0, xhci |-> 0]
    /\ lk = LkInit
    /\ drv = DrvInit

---------------------------------------------------------------------------
(* Specification of the command ring under any sequence of enqueues *)

NextRing == \E trb \in CommandTrbs : CmdEnqueue(trb)

SpecRing == Init /\ [][NextRing]_vars

---------------------------------------------------------------------------
(* Specification of the event ring: the hardware produces, software polls *)

PlainEvents == { EventTrb(TRANSFER_EVENT, 1, SUCCESS, 0),
                 EventTrb(COMMAND_COMPLETION, 1, SUCCESS, 0) }

NextEvt ==
    \/ \E evt \in PlainEvents : HwPost(evt)
    \/ PollEvent

SpecEvt == Init /\ [][NextEvt]_vars

---------------------------------------------------------------------------
(* Specification of control transfers: one context calls control_transfer   *)
(* on the device while the hardware executes the EP0 ring                   *)

\* the one context that issues the calls
Caller == CHOOSE t \in Ctx : \A u \in Ctx : t <= u

DataCodes   == {SUCCESS, SHORT_PACKET, STALL_ERROR, 4}
StatusCodes == {SUCCESS, STALL_ERROR}

NextCtl ==
    \/ \E setup \in SetupPackets, data \in DataArgs :
          dma.calls < MaxCalls /\ CtLock(Caller, setup, data)
    \/ CtNoBuffer(Caller)
    \/ CtAllocOk(Caller)
    \/ CtAllocFail(Caller)
    \/ CtSetup(Caller)
    \/ CtData(Caller)
    \/ CtStatus(Caller)
    \/ CtDoorbell(Caller)
    \/ CtPoll(Caller)
    \/ CtReturn(Caller)
    \/ HwEp0Setup
    \/ \E code \in DataCodes, residual \in 0..MaxLen : HwEp0Data(code, residual)
    \/ \E code \in StatusCodes : HwEp0Status(code)
    \/ \E evt \in OtherEvents : HwOther(Caller, evt)

SpecCtl == Init /\ [][NextCtl]_vars

---------------------------------------------------------------------------
(* Specification of concurrent control transfers: every context may call    *)
(* control_transfer on the one device while the hardware executes the EP0   *)
(* ring; the wait loops run at the grain of the event-ring lock             *)

\* the calls made: a GET with an IN data stage of MaxLen bytes, and a request
\* without data stage
CcArgs ==
    { [setup |-> [request_type |-> 128, request |-> 6, value |-> 0, index |-> 0,
                  length |-> MaxLen],
       data |-> [some |-> TRUE, bytes |-> [i \in 1..MaxLen |-> CallerByte(i)]]],
      [setup |-> [request_type |-> 0, request |-> 6, value |-> 0, index |-> 0,
                  length |-> 0],
       data |-> [some |-> FALSE, bytes |-> <<>>]] }

NextCc ==
    \/ \E t \in Ctx, a \in CcArgs : dma.calls < MaxXfers /\ CtLock(t, a.setup, a.data)
    \/ \E t \in Ctx : CtNoBuffer(t)
    \/ \E t \in Ctx : CtAllocOk(t)
    \/ \E t \in Ctx : CtAllocFail(t)
    \/ \E t \in Ctx : CtSetup(t)
    \/ \E t \in Ctx : CtData(t)
    \/ \E t \in Ctx : CtStatus(t)
    \/ \E t \in Ctx : CtDoorbell(t)
    \/ \E t \in Ctx : CtDequeue(t)
    \/ \E t \in Ctx : CtUpdateErdp(t)
    \/ \E t \in Ctx : CtReturn(t)
    \/ HwEp0Setup
    \/ HwEp0Data(SUCCESS, 0)
    \/ HwEp0Status(SUCCESS)

SpecCc == Init /\ [][NextCc]_vars

---------------------------------------------------------------------------
(* Specification of controller construction: XhciCtrl::new runs once while  *)
(* the hardware reacts to the register writes                               *)

NextNew ==
    \/ \E caps \in CapSets, cmd \in BootUsbCmd : HwFirmware(caps, cmd)
    \/ NewMapInit
    \/ NewMapInitFail
    \/ NewReadCaps
    \/ NewMapFull
    \/ NewMapFullFail
    \/ NewAllocOk
    \/ NewAllocFail
    \/ InitStop
    \/ InitHaltSeen
    \/ InitReset
    \/ InitResetSeen
    \/ InitReadySeen
    \/ InitConfigure
    \/ InitRun
    \/ InitRunning
    \/ HwHalt
    \/ HwResetDone
    \/ HwReady
    \/ HwStart

SpecNew == Init /\ [][NextNew]_vars

---------------------------------------------------------------------------
(* Specification of device construction: one context runs UsbDevice::new     *)
(* while another submits commands of its own and the hardware executes them  *)

NextDev ==
    \/ DnEnableSlot(Caller)
    \/ DnSlot(Caller)
    \/ RpBegin
    \/ RpResetSeen
    \/ RpClearChange
    \/ DnSpeed
    \/ DnAllocOk
    \/ DnAllocFail
    \/ DnSetContext
    \/ DnAddress(Caller)
    \/ DnAddressed(Caller)
    \/ \E t \in Ctx : ScLock(t)
    \/ \E t \in Ctx : ScEnqueue(t)
    \/ \E t \in Ctx : ScDoorbell(t)
    \/ \E t \in Ctx : WcDequeue(t)
    \/ \E t \in Ctx : WcUpdateErdp(t)
    \/ \E t \in Ctx \ {Caller} : Submit(t, DisableSlotTrb(2))
    \/ \E t \in Ctx \ {Caller} : SubmitReturn(t)
    \/ \E code \in CmdCodes : HwCommand(code)
    \/ HwStray(Caller)
    \/ \E speed \in Speeds : HwPortReset(speed)

SpecDev == Init /\ [][NextDev]_vars

---------------------------------------------------------------------------
(* Specification of configure_endpoint and queue_transfer on a device that  *)
(* UsbDevice::new has just built, for every endpoint descriptor and speed   *)

NextEp ==
    \/ DnEnableSlot(Caller)
    \/ DnSlot(Caller)
    \/ RpBegin
    \/ RpResetSeen
    \/ RpClearChange
    \/ DnSpeed
    \/ DnAllocOk
    \/ DnAllocFail
    \/ DnSetContext
    \/ DnAddress(Caller)
    \/ DnAddressed(Caller)
    \/ ScLock(Caller)
    \/ ScEnqueue(Caller)
    \/ ScDoorbell(Caller)
    \/ WcDequeue(Caller)
    \/ WcUpdateErdp(Caller)
    \/ \E code \in CmdCodes : HwCommand(code)
    \/ \E speed \in DeviceSpeeds : HwPortReset(speed)
    \/ \E ep \in EndpointDescs : CfgBegin(Caller, ep)
    \/ CfgUnderflow(Caller)
    \/ CfgRingOk(Caller)
    \/ CfgRingFail(Caller)
    \/ CfgStore(Caller)
    \/ CfgSubmit(Caller)
    \/ CfgReturn(Caller)
    \/ \E ep_num \in 0..(MaxEpNum + 1), is_in \in BOOLEAN : QtEnqueue(Caller, ep_num, is_in)
    \/ QtDoorbell(Caller)

SpecEp == Init /\ [][NextEp]_vars

---------------------------------------------------------------------------
(* Specification of a transfer waiter beside a command: one context calls   *)
(* control_transfer, whose wait loop polls the event ring, while another    *)
(* calls submit_command, and the hardware executes both rings               *)

NextMix ==
    \/ \E a \in CcArgs : dma.calls < MaxCalls /\ CtLock(Caller, a.setup, a.data)
    \/ CtNoBuffer(Caller)
    \/ CtAllocOk(Caller)
    \/ CtSetup(Caller)
    \/ CtData(Caller)
    \/ CtStatus(Caller)
    \/ CtDoorbell(Caller)
    \/ CtDequeue(Caller)
    \/ CtUpdateErdp(Caller)
    \/ \E t \in Ctx \ {Caller} : Submit(t, DisableSlotTrb(2))
    \/ \E t \in Ctx \ {Caller} : ScLock(t)
    \/ \E t \in Ctx \ {Caller} : ScEnqueue(t)
    \/ \E t \in Ctx \ {Caller} : ScDoorbell(t)
    \/ \E t \in Ctx \ {Caller} : WcDequeue(t)
    \/ \E t \in Ctx \ {Caller} : WcUpdateErdp(t)
    \/ \E t \in Ctx \ {Caller} : SubmitReturn(t)
    \/ \E code \in CmdCodes : HwCommand(code)
    \/ HwEp0Setup
    \/ HwEp0Data(SUCCESS, 0)
    \/ HwEp0Status(SUCCESS)

SpecMix == Init /\ [][NextMix]_vars

---------------------------------------------------------------------------
(* Specification of a device's life: UsbDevice::new, at most one            *)
(* configure_endpoint, and the drop of the device                           *)

\* the endpoints configured: interrupt IN 1 and bulk OUT 2
LifeDescs ==
    { [endpoint_address |-> 129, attributes |-> 3, max_packet_size |-> 8, interval |-> 10],
      [endpoint_address |-> 2, attributes |-> 2, max_packet_size |-> 8, interval |-> 10] }

NextLife ==
    \/ DnEnableSlot(Caller)
    \/ DnSlot(Caller)
    \/ RpBegin
    \/ RpResetSeen
    \/ RpClearChange
    \/ DnSpeed
    \/ DnAllocOk
    \/ DnAllocFail
    \/ DnSetContext
    \/ DnAddress(Caller)
    \/ DnAddressed(Caller)
    \/ ScLock(Caller)
    \/ ScEnqueue(Caller)
    \/ ScDoorbell(Caller)
    \/ WcDequeue(Caller)
    \/ WcUpdateErdp(Caller)
    \/ \E code \in CmdCodes : HwCommand(code)
    \/ \E speed \in Speeds : HwPortReset(speed)
    \/ \E ep \in LifeDescs : CfgBegin(Caller, ep)
    \/ CfgRingOk(Caller)
    \/ CfgRingFail(Caller)
    \/ CfgStore(Caller)
    \/ CfgSubmit(Caller)
    \/ CfgReturn(Caller)
    \/ DropBegin(Caller)
    \/ DropFree(Caller)
    \/ DropPanic(Caller)

SpecLife == Init /\ [][NextLife]_vars

---------------------------------------------------------------------------
(* Specification of concurrent configure_endpoint: UsbDevice::new, then    *)
(* each context configures one endpoint of the device, a different one     *)
(* from the other context's                                                *)

NextCfg ==
    \/ DnEnableSlot(Caller)
    \/ DnSlot(Caller)
    \/ RpBegin
    \/ RpResetSeen
    \/ RpClearChange
    \/ DnSpeed
    \/ DnAllocOk
    \/ DnSetContext
    \/ DnAddress(Caller)
    \/ DnAddressed(Caller)
    \/ \E t \in Ctx : ScLock(t)
    \/ \E t \in Ctx : ScEnqueue(t)
    \/ \E t \in Ctx : ScDoorbell(t)
    \/ \E t \in Ctx : WcDequeue(t)
    \/ \E t \in Ctx : WcUpdateErdp(t)
    \/ HwCommand(SUCCESS)
    \/ HwPortReset(SPEED_HIGH)
    \/ \E t \in Ctx, ep \in LifeDescs :
          /\ \A u \in Ctx \ {t} : cf[u].ep # ep
          /\ CfgBegin(t, ep)
    \/ \E t \in Ctx : CfgRingOk(t)
    \/ \E t \in Ctx : CfgStore(t)
    \/ \E t \in Ctx : CfgSubmit(t)
    \/ \E t \in Ctx : CfgReturn(t)

SpecCfg == Init /\ [][NextCfg]_vars

---------------------------------------------------------------------------
(* Specification of the interval conversion of configure_endpoint over every *)
(* descriptor interval and speed                                             *)

NextIv == \E speed \in DeviceSpeeds, interval \in 0..U8_MAX : ComputeInterval(speed, interval)

SpecIv == Init /\ [][NextIv]_vars

---------------------------------------------------------------------------
(* Specification of the mutexes: init, then two contexts calling the       *)
(* operations of the controller and of the device in any interleaving      *)

PublicOps == ControllerOps \cup DeviceOps \cup {"drop"}

NextLk ==
    \E t \in Ctx :
        \/ \E f \in PublicOps : LkEnter(t, f)
        \/ LkLock(t)
        \/ LkUnlock(t)
        \/ LkWork(t)
        \/ \E k \in 1..10 : LkBranch(t, k)
        \/ LkCallFn(t)
        \/ LkReturn(t)

SpecLk == Init /\ [][NextLk]_vars

---------------------------------------------------------------------------
(* Claims about the producer ring, checked under SpecRing *)

LinkSlot(r) == r.slots[r.size - 1]

\* C1: every enqueue writes the caller's TRB at enqueue_index with its cycle
\* bit forced to the current PCS, whatever cycle bit the caller supplied; the
\* index then advances by one, and when it lands on index N-1 the Link TRB's
\* cycle bit is set to the outgoing PCS, PCS is toggled and the index is 0.
C1_EnqueueCycle ==
    [][enq_count' = enq_count + 1 =>
        LET i == cmd_ring.enqueue_index
            n == cmd_ring.size
            t == cmd_ring'.slots[i]
            given == enq_log'.trb
        IN  /\ CycleBit(t) = cmd_ring.cycle
            /\ ClearBit0(t.control) = ClearBit0(given.control)
            /\ t.param = given.param
            /\ t.status = given.status
            /\ IF i + 1 = n - 1
               THEN /\ CycleBit(LinkSlot(cmd_ring')) = cmd_ring.cycle
                    /\ cmd_ring'.cycle = 1 - cmd_ring.cycle
                    /\ cmd_ring'.enqueue_index = 0
               ELSE /\ cmd_ring'.enqueue_index = i + 1
                    /\ cmd_ring'.cycle = cmd_ring.cycle
                    /\ LinkSlot(cmd_ring') = LinkSlot(cmd_ring)]_vars

\* an enqueue that wrapped the ring, given a TRB whose cycle bit was not PCS
C1_Witness ==
    /\ enq_count > 0
    /\ enq_log.at = cmd_ring.size - 2
    /\ cmd_ring.enqueue_index = 0
    /\ CycleBit(enq_log.trb) # enq_log.pcs
    /\ CycleBit(cmd_ring.slots[enq_log.at]) = enq_log.pcs

\* C2: after k enqueues from PCS = 1, enqueue_index = 0, the index is
\* k mod (N-1) and never N-1, and slot N-1 always holds a Link TRB whose
\* parameter is the ring's physical base and whose Toggle Cycle bit is set.
C2_IndexAndLink ==
    LET n == cmd_ring.size
        l == LinkSlot(cmd_ring)
    IN  /\ cmd_ring.enqueue_index = enq_count % (n - 1)
        /\ cmd_ring.enqueue_index # n - 1
        /\ TrbType(l) = LINK
        /\ l.param = <<RingPhys(cmd_ring), 0>>
        /\ BitAnd(Shr(l.control, 1), 1) = 1

\* two full laps of the ring
C2_Witness ==
    /\ enq_count = 2 * (cmd_ring.size - 1)
    /\ cmd_ring.enqueue_index = 0
    /\ cmd_ring.cycle = 1

\* C3 as stated: enqueuing k >= N TRBs toggles the Link TRB's cycle bit
\* exactly floor((k-1)/(N-1)) times.
C3_AsStated ==
    enq_count >= cmd_ring.size =>
        link_toggles = (enq_count - 1) \div (cmd_ring.size - 1)

\* C3 amended: enqueuing k >= N TRBs toggles the Link TRB's cycle bit exactly
\* floor(k/(N-1)) times, once for each time the index lands on the Link TRB.
C3_LinkToggles ==
    enq_count >= cmd_ring.size =>
        link_toggles = enq_count \div (cmd_ring.size - 1)

\* k = 2(N-1) enqueues: the second landing on the Link TRB has toggled it again
C3_Witness ==
    /\ enq_count = 2 * (cmd_ring.size - 1)
    /\ enq_count >= cmd_ring.size
    /\ link_toggles = 2
    /\ CycleBit(LinkSlot(cmd_ring)) = 0

---------------------------------------------------------------------------
(* Claims about the event ring, checked under SpecEvt *)

\* C4: try_dequeue returns empty exactly when the cycle bit of the TRB at
\* dequeue_index differs from CCS, and then leaves dequeue_index and CCS
\* unchanged; otherwise it returns a copy of that TRB and advances
\* dequeue_index by one, resetting it to 0 and toggling CCS past index N-1.
C4_TryDequeue ==
    [][deq_log'.tick # deq_log.tick =>
        LET i == event_ring.dequeue_index
            n == event_ring.size
            seen == event_ring.slots[i]
            ret == deq_log'.ret
        IN  /\ (~ret.some) <=> (CycleBit(seen) # event_ring.cycle)
            /\ ~ret.some => /\ event_ring'.dequeue_index = i
                            /\ event_ring'.cycle = event_ring.cycle
            /\ ret.some => /\ ret.trb = seen
                           /\ IF i = n - 1
                              THEN /\ event_ring'.dequeue_index = 0
                                   /\ event_ring'.cycle = 1 - event_ring.cycle
                              ELSE /\ event_ring'.dequeue_index = i + 1
                                   /\ event_ring'.cycle = event_ring.cycle]_vars

\* the consumer has wrapped, and its last poll found a stale slot of the
\* previous lap and returned empty
C4_Witness ==
    /\ ccs_toggles >= 1
    /\ ~deq_log.ret.some
    /\ deq_log.tick = 1
    /\ TrbType(event_ring.slots[event_ring.dequeue_index]) # 0
    /\ CycleBit(event_ring.slots[event_ring.dequeue_index]) # event_ring.cycle

\* C5 as stated: after 2N producer wraps, all events drained, the consumer
\* has toggled CCS exactly twice.
C5_AsStated ==
    (hw_evt.wraps = 2 * event_ring.size /\ Drained) => ccs_toggles = 2

\* C5 amended: whenever all produced events are drained the consumer has
\* toggled CCS exactly once per producer wrap: twice after the 2N events of
\* two producer wraps, and 2N times after 2N producer wraps.
C5_Toggles ==
    Drained => /\ ccs_toggles = hw_evt.wraps
               /\ event_ring.cycle = hw_evt.cycle

\* 2N events produced and drained: two producer wraps, two CCS toggles
C5_Witness ==
    /\ Drained
    /\ hw_evt.wraps = 2
    /\ hw_evt.index = 0
    /\ ccs_toggles = 2
    /\ event_ring.cycle = 1

---------------------------------------------------------------------------
(* Claims about control_transfer, checked under SpecCtl *)

\* the fields of the TRBs a call handed to Ring::enqueue
Trt(trb) == BitAnd(Shr(trb.control, 16), 3)
Dir(trb) == BitAnd(Shr(trb.control, 16), 1)

Types(trbs) == [i \in 1..Len(trbs) |-> TrbType(trbs[i])]

HasDataTrb(trbs) == \E i \in 1..Len(trbs) : TrbType(trbs[i]) = DATA

\* the call has enqueued all of its TRBs
Enqueued(t) ==
    \/ pc[t] \in {"doorbell", "wait"}
    \/ pc[t] = "done" /\ call[t].ret.kind # "OoRam"

\* the call has returned on a matched Transfer Event
Completed(t) == pc[t] = "done" /\ call[t].ret.kind \in {"Ok", "Stall", "XferFail"}

\* C6: control_transfer with wLength = 0, for any data argument (absent,
\* empty or non-empty), enqueues exactly two TRBs, a Setup Stage TRB with
\* TRT = 0 followed by a Status Stage TRB with DIR = 1, and no Data Stage TRB.
C6_AsStated ==
    \A t \in Ctx :
        (Enqueued(t) /\ call[t].setup.length = 0) =>
            /\ Types(call[t].emitted) = <<SETUP, STATUS>>
            /\ Trt(call[t].emitted[1]) = 0
            /\ Dir(call[t].emitted[2]) = 1

\* C7: a control_transfer with a data stage enqueues exactly Setup, Data,
\* Status with agreeing direction fields (IN: TRT = 3, Data DIR = 1, Status
\* DIR = 0; OUT: TRT = 2, Data DIR = 0, Status DIR = 1), and a Data Stage TRB
\* is enqueued if and only if the Setup TRB's TRT is non-zero.
C7_AsStated ==
    \A t \in Ctx :
        Enqueued(t) =>
            LET e == call[t].emitted
            IN  /\ HasDataTrb(e) <=> Trt(e[1]) # 0
                /\ HasDataTrb(e) =>
                      /\ Types(e) = <<SETUP, DATA, STATUS>>
                      /\ IF call[t].data_dir
                         THEN Trt(e[1]) = 3 /\ Dir(e[2]) = 1 /\ Dir(e[3]) = 0
                         ELSE Trt(e[1]) = 2 /\ Dir(e[2]) = 0 /\ Dir(e[3]) = 1

\* C8: when the matched Transfer Event carries Success or Short Packet with
\* residual r and the setup packet has wLength = L, control_transfer returns
\* exactly L - r, and for an IN transfer the caller's buffer holds exactly the
\* first L - r bytes the device delivered into the DMA buffer.
C8_AsStated ==
    \A t \in Ctx :
        (Completed(t) /\ CompletionCode(call[t].evt) \in {SUCCESS, SHORT_PACKET}) =>
            LET n == call[t].setup.length - TransferLength(call[t].evt)
                d == call[t].data.bytes
            IN  /\ call[t].ret = [kind |-> "Ok", n |-> n]
                /\ (call[t].data_dir /\ call[t].data_buf # 0) =>
                      /\ Len(d) >= n
                      /\ \A i \in 1..Len(d) :
                            d[i] = IF i <= n THEN DeviceByte(i) ELSE CallerByte(i)

\* C9: a matched Transfer Event with completion code 6 makes control_transfer
\* return Stall, never TransferFail(6); any other code except 1 and 13 makes
\* it return TransferFail(code); and on every return path after the wait a
\* DMA data buffer allocated for the transfer has been freed exactly once.
C9_StallAndFree ==
    \A t \in Ctx :
        Completed(t) =>
            LET code == CompletionCode(call[t].evt)
            IN  /\ code = STALL_ERROR => call[t].ret = [kind |-> "Stall", n |-> 0]
                /\ code \notin {SUCCESS, SHORT_PACKET, STALL_ERROR} =>
                       call[t].ret = [kind |-> "XferFail", n |-> code]
                /\ code \in {SUCCESS, SHORT_PACKET} => call[t].ret.kind = "Ok"
                /\ call[t].frees = (IF call[t].data_buf # 0 THEN 1 ELSE 0)
                /\ call[t].data_buf \notin dma.live
                /\ dma.fault # "double free"

\* a transfer with a data buffer returned Stall and its buffer is gone
C9_Witness ==
    \E t \in Ctx :
        /\ Completed(t)
        /\ CompletionCode(call[t].evt) = STALL_ERROR
        /\ call[t].ret.kind = "Stall"
        /\ call[t].data_buf # 0
        /\ call[t].frees = 1
        /\ dma.live = {}

\* C10: if the DMA data-buffer allocation fails, the error is returned with
\* no TRB enqueued on the EP0 ring, enqueue_index and PCS unchanged, no
\* doorbell rung, and the EP0 lock released.
C10_AllocFailure ==
    [][\A t \in Ctx :
          (pc[t] # "done" /\ pc'[t] = "done" /\ call'[t].ret.kind = "OoRam") =>
              /\ ep0_ring' = ep0_ring
              /\ ep0_ring'.enqueue_index = call[t].start.idx
              /\ ep0_ring'.cycle = call[t].start.pcs
              /\ call'[t].emitted = <<>>
              /\ doorbells' = doorbells
              /\ call'[t].rang = 0
              /\ hw_ep0' = hw_ep0
              /\ ep0_lock = t
              /\ ep0_lock' = 0]_vars

\* a call whose allocation failed has returned OutOfMemory
C10_Witness ==
    \E t \in Ctx :
        /\ pc[t] = "done"
        /\ call[t].ret.kind = "OoRam"
        /\ call[t].data_len > 0
        /\ call[t].emitted = <<>>
        /\ doorbells = <<>>
        /\ ep0_lock = 0

---------------------------------------------------------------------------
(* Claims about controller construction, checked under SpecNew *)

IsWrite(e, reg) == e.op = "write" /\ e.reg = reg
IsRead(e, reg)  == e.op = "read" /\ e.reg = reg

\* positions in the log of the HCRST write and of the configuration writes
ResetWrites ==
    {i \in 1..Len(hw_log) :
        IsWrite(hw_log[i], "USBCMD") /\ BitAnd(hw_log[i].val, USBCMD_HCRST) # 0}
ConfigWrites ==
    {i \in 1..Len(hw_log) :
        \/ hw_log[i].op = "write" /\
           hw_log[i].reg \in {"CONFIG", "DCBAAP", "CRCR", "ERSTSZ", "ERSTBA", "ERDP"}
        \/ IsWrite(hw_log[i], "USBCMD") /\ BitAnd(hw_log[i].val, USBCMD_RUN) # 0}

\* init found the controller running: its first read of USBCMD shows RUN
StartedRunning ==
    \E i \in 1..Len(hw_log) :
        /\ IsRead(hw_log[i], "USBCMD")
        /\ BitAnd(hw_log[i].val, USBCMD_RUN) # 0
        /\ \A j \in 1..(i - 1) : ~IsRead(hw_log[j], "USBCMD")

\* C11: an init that starts with USBCMD.RUN = 1 clears RUN and observes
\* USBSTS.HCH = 1 before it writes HCRST; it observes HCRST = 0 and then
\* CNR = 0 after the reset and before any configuration write; and when init
\* returns, USBCMD holds RUN | INTE, CONFIG[7:0] is max_slots and HCH has
\* been observed clear after the controller was started.
C11_InitOrder ==
    /\ \A i \in ResetWrites :
          StartedRunning =>
              \E j \in 1..i, k \in 1..i :
                  /\ j < k /\ k < i
                  /\ IsWrite(hw_log[j], "USBCMD")
                  /\ BitAnd(hw_log[j].val, USBCMD_RUN) = 0
                  /\ IsRead(hw_log[k], "USBSTS")
                  /\ BitAnd(hw_log[k].val, USBSTS_HCH) # 0
    /\ \A i \in ConfigWrites :
          \E h \in ResetWrites, j \in 1..i, k \in 1..i :
              /\ h < j /\ j < k /\ k < i
              /\ IsRead(hw_log[j], "USBCMD")
              /\ BitAnd(hw_log[j].val, USBCMD_HCRST) = 0
              /\ IsRead(hw_log[k], "USBSTS")
              /\ BitAnd(hw_log[k].val, USBSTS_CNR) = 0
    /\ ctor.ret = "Ok" =>
          /\ regs.usbcmd = USBCMD_RUN + USBCMD_INTE
          /\ BitAnd(regs.config, 255) = MaxSlotsOf(regs.caps.hcs1)
          /\ IsRead(hw_log[Len(hw_log)], "USBSTS")
          /\ BitAnd(hw_log[Len(hw_log)].val, USBSTS_HCH) = 0
          /\ IsWrite(hw_log[Len(hw_log) - 1], "USBCMD")

\* init returned for a controller the firmware had left running
C11_Witness ==
    /\ ctor.ret = "Ok"
    /\ StartedRunning
    /\ ResetWrites # {}

---------------------------------------------------------------------------
(* Claims about submit_command, reset_port and UsbDevice::new, checked      *)
(* under SpecDev                                                            *)

\* the steps of one submit_command call so far are in the claimed order:
\* enqueue, doorbell 0, then dequeues, each followed by an ERDP write; an
\* event is dropped only if it is no Command Completion, and the call ends
\* at the first Command Completion event it dequeues
StepsInOrder(c) ==
    LET st == c.steps
    IN  /\ c.pc = "erdp" => st[Len(st)].s = "deq"
        /\ \A i \in 1..Len(st) :
            /\ (st[i].s = "enq") <=> (i = 1)
            /\ (st[i].s = "bell") <=> (i = 2)
            /\ st[i].s = "deq" =>
                  /\ i > 2
                  /\ (i = Len(st)) => (c.pc = "erdp")
                  /\ i < Len(st) => st[i + 1].s = "erdp"
                  /\ st[i].ty = COMMAND_COMPLETION => i >= Len(st) - 1
            /\ st[i].s = "erdp" => st[i - 1].s = "deq"
            /\ st[i].s = "drop" =>
                  /\ st[i - 2].s = "deq"
                  /\ st[i].ty = st[i - 2].ty
                  /\ st[i].ty # COMMAND_COMPLETION

\* the result of a finished call is that of the event it stopped at
ResultOfEvent(c) ==
    c.pc = "done" =>
        /\ Len(c.steps) >= 4
        /\ c.steps[Len(c.steps) - 1] = Step("deq", COMMAND_COMPLETION)
        /\ TrbType(c.evt) = COMMAND_COMPLETION
        /\ (c.evt.status \div 16777216 = 1) => c.ret = [kind |-> "Ok", code |-> 1]
        /\ (c.evt.status \div 16777216 # 1) =>
               c.ret = [kind |-> "CmdFail", code |-> c.evt.status \div 16777216]

\* C13: submit_command enqueues the TRB, then rings doorbell 0, then dequeues
\* events until the first Command Completion event; it returns that event
\* when its completion code is 1 and CmdFail(code) otherwise; events of other
\* types dequeued before it are dropped; and ERDP is rewritten with the
\* current dequeue pointer after each dequeue.
C13_SubmitCommand ==
    /\ [](\A t \in Ctx : StepsInOrder(sc[t]) /\ ResultOfEvent(sc[t]))
    /\ [][\A t \in Ctx :
             (sc[t].pc = "erdp" /\ sc'[t].pc # "erdp") =>
                 erdp' = event_ring.phys + 16 * event_ring.dequeue_index + 8]_vars

\* a call dropped a Transfer Event and then returned CmdFail
C13_Witness ==
    \E t \in Ctx :
        /\ sc[t].pc = "done"
        /\ sc[t].ret.kind = "CmdFail"
        /\ \E i \in 1..Len(sc[t].steps) : sc[t].steps[i] = Step("drop", TRANSFER_EVENT)

\* the callers between the enqueue of their command and its completion
InFlight == {t \in Ctx : sc[t].pc \in {"bell", "wait", "erdp"}}

\* C14: submit_command holds the command-ring mutex for the whole of enqueue,
\* doorbell and wait, so at most one caller at a time is between enqueuing a
\* command TRB and receiving its completion.
C14_AsStated ==
    /\ \A t \in InFlight : cmd_lock = t
    /\ Cardinality(InFlight) <= 1

PortWrites == {i \in 1..Len(port_log) : port_log[i].op = "write"}

\* C16: reset_port first writes exactly (PORTSC & PP) | PR; its final write
\* comes only after a read that shows PR = 0 and has PRC set; a later
\* port_speed returns bits 13:10 of the PORTSC value it reads.
C16_ResetPort ==
    /\ Len(port_log) >= 2 =>
          /\ port_log[1].op = "read"
          /\ port_log[2].op = "write"
          /\ port_log[2].val = (IF (port_log[1].val \div 512) % 2 = 1 THEN 512 ELSE 0) + 16
    /\ \A i \in PortWrites :
          i > 2 =>
              /\ \E k \in 3..(i - 1) :
                    port_log[k].op = "read" /\ (port_log[k].val \div 16) % 2 = 0
              /\ (port_log[i].val \div 2097152) % 2 = 1
    /\ Cardinality(PortWrites) <= 2
    /\ Len(port_log) = 6 =>
          /\ port_log[6].op = "read"
          /\ dn.speed = (port_log[6].val \div 1024) % 16

\* reset_port ran to its end and port_speed reported the speed of the port
C16_Witness ==
    /\ Len(port_log) = 6
    /\ Cardinality(PortWrites) = 2
    /\ dn.speed = SPEED_HIGH

\* C17: UsbDevice::new does Enable Slot, port reset, creation of the contexts
\* and the EP0 ring, the DCBAA write and the Address Device command in this
\* order; the Address Device TRB carries the Input Context's address and the
\* slot id; and a device is returned only if Address Device completed with
\* code 1.
C17_AsStated ==
    /\ \E n \in 0..5 :
          dn.steps = SubSeq(<<"enable_slot", "reset_port", "contexts", "dcbaa",
                              "address_device">>, 1, n)
    /\ dn.pc = "addressing" =>
          /\ TrbType(sc[Caller].trb) = ADDRESS_DEVICE
          /\ sc[Caller].trb.param = <<InputCtxPhys, 0>>
          /\ sc[Caller].trb.control \div 16777216 = dn.slot_id
          /\ dcbaa[dn.slot_id] = DeviceCtxPhys
          /\ dn.has_ring
    /\ dn.ret = "Ok" =>
          \E d \in hw_cmd.done : d.at = dn.at /\ d.code = SUCCESS

---------------------------------------------------------------------------
(* Claim about the EP0-ring mutex, checked under SpecCtl                    *)

\* C15: control_transfer holds the EP0-ring mutex across the enqueue of its
\* Setup/Data/Status TRBs and across the doorbell write for (slot_id, 1), and
\* has released it before its first poll of the event ring.
C15_AsStated ==
    \A t \in Ctx :
        /\ pc[t] \in {"locked", "setup", "data", "status", "doorbell"} => ep0_lock = t
        /\ pc[t] = "wait" => ep0_lock # t

---------------------------------------------------------------------------
(* Claims about configure_endpoint and queue_transfer, checked under SpecEp, *)
(* and about the interval conversion, checked under SpecIv                   *)

\* endpoint number and direction (OUT = 0, IN = 1) of an endpoint address
NumberOf(a)    == a % 16
DirectionOf(a) == (a \div 128) % 2

\* C18: for every endpoint number n in 1..15 and direction d, configure_endpoint
\* and queue_transfer derive DCI = 2n + d and use ring slot DCI - 1; distinct
\* (n, d) pairs never share a ring slot, and none uses slot 0 of EP0.
C18_DciAndSlot ==
    /\ \A t \in Ctx :
          LET n == NumberOf(cf[t].ep.endpoint_address)
              d == DirectionOf(cf[t].ep.endpoint_address)
          IN  (cf[t].pc # "idle" /\ n \in 1..15) =>
                 /\ cf[t].dci = 2 * n + d
                 /\ cf[t].ring_idx = 2 * n + d - 1
                 /\ (\/ cf[t].pc \in {"submit", "submitted"}
                     \/ cf[t].pc = "done" /\ cf[t].ret \in {"Ok", "CmdFail"}) =>
                        \A i \in 0..30 : ep_rings[i].some <=> (i = 2 * n + d - 1)
    /\ \A t \in Ctx :
          LET n == qt[t].ep_num
              d == IF qt[t].is_in THEN 1 ELSE 0
          IN  (qt[t].pc # "idle" /\ n \in 1..15) =>
                 /\ qt[t].dci = 2 * n + d
                 /\ qt[t].ring_idx = 2 * n + d - 1
                 /\ qt[t].pc = "bell" =>
                        /\ ep_rings[2 * n + d - 1].some
                        /\ ep_rings[2 * n + d - 1].ring.enqueue_index = 1
                 /\ qt[t].ret = "Ok" =>
                        doorbells[Len(doorbells)] = <<dn.slot_id, 2 * n + d>>
                 /\ qt[t].ret = "InvEndpoint" => ~ep_rings[2 * n + d - 1].some
    /\ \A n \in 1..15, is_in \in BOOLEAN : RingIdx(Dci(n, is_in)) \in 1..30
    /\ Cardinality({RingIdx(Dci(n, is_in)) : n \in 1..15, is_in \in BOOLEAN}) = 30

\* endpoint 15 IN was configured at DCI 31, ring slot 30, and a transfer
\* queued on it rang the doorbell with target 31
C18_Witness ==
    /\ cf[Caller].ep.endpoint_address = 143
    /\ cf[Caller].dci = 31
    /\ ep_rings[30].some
    /\ qt[Caller].ep_num = 15 /\ qt[Caller].is_in /\ qt[Caller].ret = "Ok"
    /\ doorbells[Len(doorbells)] = <<dn.slot_id, 31>>

\* the xHCI endpoint type of transfer type ty and direction d: Control 4,
\* Isoch 1/5, Bulk 2/6, Interrupt 3/7
EpTypeTable(ty, d) == IF ty = 0 THEN 4 ELSE ty + 4 * d

\* C19: for every endpoint descriptor, configure_endpoint submits Configure
\* Endpoint with parameter = input_context_phys and the slot id in
\* control[31:24], while the Input Context holds drop flags 0, add flags
\* (1 << DCI) | 1, and endpoints[DCI - 1] with the endpoint type of the table
\* and the new ring's physical base with DCS = 1.
C19_ConfigureEndpoint ==
    \A t \in Ctx :
        cf[t].pc = "submitted" =>
            LET ep  == cf[t].ep
                DCI == 2 * NumberOf(ep.endpoint_address) + DirectionOf(ep.endpoint_address)
                ctx == dn.input.endpoints[DCI - 1]
            IN  /\ TrbType(sc[t].trb) = CONFIGURE_ENDPOINT
                /\ sc[t].trb.param = <<InputCtxPhys, 0>>
                /\ sc[t].trb.control \div 16777216 = dn.slot_id
                /\ sc[t].pc \in {"bell", "wait", "erdp", "done"} =>
                      LET q == cmd_ring.slots[(sc[t].at - cmd_ring.phys) \div 16]
                      IN  /\ TrbType(q) = CONFIGURE_ENDPOINT
                          /\ q.param = <<InputCtxPhys, 0>>
                          /\ q.control \div 16777216 = dn.slot_id
                /\ dn.input.drop = <<0, 0>>
                /\ dn.input.add = IF DCI < 16 THEN <<2 ^ DCI + 1, 0>>
                                  ELSE <<1, 2 ^ (DCI - 16)>>
                /\ (ctx.dw1 \div 8) % 8 =
                      EpTypeTable(ep.attributes % 4, DirectionOf(ep.endpoint_address))
                /\ ep_rings[DCI - 1].some
                /\ ep_rings[DCI - 1].ring.enqueue_index = 0
                /\ ctx.tr_dequeue_lo = ep_rings[DCI - 1].ring.phys + 1
                /\ ctx.tr_dequeue_hi = 0

\* Interrupt IN endpoint 1 with interval 10 on a high-speed device: the
\* command completed with add flags (1 << 3) | 1, endpoints[2] of type 7 and
\* interval 9
C19_Witness ==
    /\ cf[Caller].pc = "submitted"
    /\ sc[Caller].pc = "done" /\ sc[Caller].ret.kind = "Ok"
    /\ cf[Caller].ep.endpoint_address = 129
    /\ cf[Caller].ep.attributes = 3
    /\ dn.speed = SPEED_HIGH
    /\ dn.input.add = <<9, 0>>
    /\ (dn.input.endpoints[2].dw1 \div 8) % 8 = 7
    /\ dn.input.endpoints[2].dw0 \div 65536 = 9

\* the least k with 2^k >= m, for m in 1..255
CeilLog2(m) == CHOOSE k \in 0..8 : 2 ^ k >= m /\ \A j \in 0..(k - 1) : 2 ^ j < m

\* C20: for every descriptor interval i in 0..255 the computed xHCI interval
\* is max(0, i - 1) at High speed or above and ceil(log2(max(1, i))) + 3 at
\* Full or Low speed (i = 10 gives 9 and 7), and it fits the 8-bit result.
C20_Interval ==
    iv.set =>
        /\ iv.speed \in {SPEED_HIGH, SPEED_SUPER} =>
              iv.xhci = Max(0, iv.interval - 1)
        /\ iv.speed \in {SPEED_FULL, SPEED_LOW} =>
              iv.xhci = CeilLog2(Max(1, iv.interval)) + 3
        /\ iv.interval = 10 =>
              iv.xhci = IF iv.speed \in {SPEED_HIGH, SPEED_SUPER} THEN 9 ELSE 7
        /\ iv.xhci \in 0..U8_MAX

\* interval 10 on a full-speed device gave 7
C20_Witness ==
    iv.set /\ iv.speed = SPEED_FULL /\ iv.interval = 10 /\ iv.xhci = 7

---------------------------------------------------------------------------
(* Claims about queue_transfer, checked under SpecEp *)

\* an endpoint ring nothing was enqueued on since Ring::new
Untouched(i) == ep_rings[i].some => ep_rings[i].ring = RingNew(Ep0N, EpRingPhys(i))

\* the TRB queue_transfer left at the head of ring i: a Normal TRB with the
\* buffer's address, the length and IOC, owned by the hardware
OneNormalTrb(i) ==
    LET r   == ep_rings[i].ring
        trb == r.slots[0]
    IN  /\ ep_rings[i].some
        /\ r.enqueue_index = 1
        /\ TrbType(trb) = NORMAL
        /\ trb.param = <<PhysBase(5), 0>>
        /\ trb.status = MaxLen
        /\ BitAnd(Shr(trb.control, 5), 1) = 1
        /\ CycleBit(trb) = 1
        /\ \A j \in 1..(r.size - 2) : r.slots[j] = ZeroTrb

\* the doorbells rung for transfer rings, in order: those of a device slot
\* (the command doorbell is slot 0, target 0)
IsXferBell(d) == d[1] # 0
XferBells == SelectSeq(doorbells, IsXferBell)

\* C21: queue_transfer on an endpoint whose ring is absent returns
\* InvalidEndpoint with no TRB enqueued and no doorbell rung; otherwise exactly
\* one Normal TRB (param = buffer address, status = length, IOC set) is
\* enqueued on the ring of that endpoint, and only then the doorbell of the
\* slot is rung with target = DCI.
C21_QueueTransfer ==
    \A t \in Ctx :
        LET DCI == 2 * qt[t].ep_num + (IF qt[t].is_in THEN 1 ELSE 0)
        IN  /\ qt[t].ret = "InvEndpoint" =>
                /\ DCI \in 1..31 /\ ~ep_rings[DCI - 1].some
                /\ XferBells = <<>>
                /\ \A i \in 0..30 : Untouched(i)
            /\ (qt[t].pc = "done" /\ DCI \in 1..31 /\ ~ep_rings[DCI - 1].some) =>
                qt[t].ret = "InvEndpoint"
            /\ qt[t].pc = "bell" =>
                /\ DCI \in 1..31
                /\ OneNormalTrb(DCI - 1)
                /\ \A i \in 0..30 \ {DCI - 1} : Untouched(i)
                /\ XferBells = <<>>
            /\ qt[t].ret = "Ok" =>
                /\ DCI \in 1..31
                /\ OneNormalTrb(DCI - 1)
                /\ \A i \in 0..30 \ {DCI - 1} : Untouched(i)
                /\ XferBells = << <<dn.slot_id, DCI>> >>
            /\ (qt[t].pc = "done" /\ DCI \in 1..31 /\ ep_rings[DCI - 1].some) =>
                qt[t].ret = "Ok"

\* a transfer was queued on the configured interrupt IN endpoint 1 (DCI 3) and
\* its doorbell rung, and in another behaviour a call on an endpoint without a
\* ring returned InvalidEndpoint
C21_Witness ==
    /\ qt[Caller].ret = "Ok"
    /\ qt[Caller].dci = 3
    /\ ep_rings[2].some
    /\ TrbType(ep_rings[2].ring.slots[0]) = NORMAL
    /\ XferBells = << <<dn.slot_id, 3>> >>

---------------------------------------------------------------------------
(* Claims about the register programming of init, checked under SpecNew *)

\* the registers init programs between the reset and the start, each with
\* the value it is given
InitProgram ==
    [CONFIG |-> ctor.max_slots,
     DCBAAP |-> RegionPhys("dcbaa"),
     CRCR   |-> RingPhys(cmd_ring) + 1,
     ERSTSZ |-> 1,
     ERSTBA |-> ErstPhys(event_ring),
     ERDP   |-> event_ring.phys]

WritesOf(reg) == {i \in 1..Len(hw_log) : IsWrite(hw_log[i], reg)}

RunWrites ==
    {i \in 1..Len(hw_log) :
        IsWrite(hw_log[i], "USBCMD") /\ BitAnd(hw_log[i].val, USBCMD_RUN) # 0}

\* C26: during init each of CONFIG, DCBAAP, CRCR (= command ring base | 1),
\* ERSTSZ (= 1), ERSTBA (= segment table base) and ERDP (= event ring base)
\* is written after HCRST = 0 and then CNR = 0 were read following the reset,
\* before USBCMD.RUN is set, and at most once; once RUN has been written all
\* six have been written.
C26_InitProgram ==
    /\ \A reg \in DOMAIN InitProgram :
          /\ Cardinality(WritesOf(reg)) <= 1
          /\ \A i \in WritesOf(reg) :
                /\ hw_log[i].val = InitProgram[reg]
                /\ \E h \in ResetWrites, j \in 1..i, k \in 1..i :
                      /\ h < j /\ j < k /\ k < i
                      /\ IsRead(hw_log[j], "USBCMD")
                      /\ BitAnd(hw_log[j].val, USBCMD_HCRST) = 0
                      /\ IsRead(hw_log[k], "USBSTS")
                      /\ BitAnd(hw_log[k].val, USBSTS_CNR) = 0
                /\ \A r \in RunWrites : i < r
          /\ RunWrites # {} => Cardinality(WritesOf(reg)) = 1
    /\ Cardinality(RunWrites) <= 1

\* init returned: the six registers were programmed and the controller started
C26_Witness ==
    /\ ctor.ret = "Ok"
    /\ RunWrites # {}
    /\ \A reg \in DOMAIN InitProgram : WritesOf(reg) # {}
    /\ ctor.max_scratchpad > 0

---------------------------------------------------------------------------
(* Claims about the mapped register region, checked under SpecNew *)

\* the largest of three numbers, by comparison
Largest(a, b, c) == CHOOSE m \in {a, b, c} : m >= a /\ m >= b /\ m >= c

\* C27: the size of the full mapping is max(RTSOFF + 0x40,
\* DBOFF + (max_slots + 1) * 4, 0x10000), the full mapping is requested with
\* that size, and every register the controller accesses ends inside it: the
\* operational registers, PORTSC of every port 0..255, the registers of
\* interrupter 0 up to the end of the 64-bit ERDP, and the doorbell of every
\* slot 0..max_slots.
C27_MmioSize ==
    (\E i \in 1..Len(hw_log) : IsRead(hw_log[i], "RTSOFF")) =>
        /\ ctor.mmio_size = Largest(regs.caps.rtsoff + 64,
                                    regs.caps.dboff + (BitAnd(regs.caps.hcs1, 255) + 1) * 4,
                                    65536)
        /\ \A i \in 1..Len(hw_log) :
              (hw_log[i].op = "map" /\ hw_log[i].val # MMIO_INIT_SIZE) =>
                  hw_log[i].val = ctor.mmio_size
        /\ \A r \in RegRanges(ctor) : 0 <= r.lo /\ r.hi <= ctor.mmio_size
        /\ \E r \in RegRanges(ctor) : r.hi = regs.caps.rtsoff + 64
        /\ \E r \in RegRanges(ctor) :
              r.hi = regs.caps.dboff + (BitAnd(regs.caps.hcs1, 255) + 1) * 4

\* a controller whose doorbell array ends past both RTSOFF + 0x40 and 64 KiB
\* was constructed: the doorbell term decides the size
C27_Witness ==
    /\ ctor.ret = "Ok"
    /\ ctor.mmio_size > 65536
    /\ ctor.mmio_size = ctor.db_offset + (ctor.max_slots + 1) * 4
    /\ ctor.mmio_size > ctor.rts_offset + 64

---------------------------------------------------------------------------
(* Claims about the scratchpad, checked under SpecNew *)

CapsRead == \E i \in 1..Len(hw_log) : IsRead(hw_log[i], "HCSPARAMS2")

\* the allocations of new have all succeeded
Allocated == ctor.pc \notin {"start", "caps", "remap", "alloc"} /\ ctor.ret # "OoRam"
                /\ ctor.ret # "MapFail"

\* bits 31:27 and bits 25:21 of HCSPARAMS2, by division
SpLo == (regs.caps.hcs2[2] \div 2048) % 32
SpHi == (regs.caps.hcs2[2] \div 32) % 32

\* C28: max_scratchpad is HCSPARAMS2[31:27] | (HCSPARAMS2[25:21] << 5).  When
\* it is greater than 0, entry i of the scratchpad array holds
\* scratchpad_buffers_phys + i * page_size for every i in [0, max_scratchpad)
\* and DCBAA[0] holds the physical base of the array; when it is 0, no
\* scratchpad memory is allocated and DCBAA[0] is left 0.
C28_Scratchpad ==
    CapsRead =>
        /\ ctor.max_scratchpad = SpLo + 32 * SpHi
        /\ (Allocated /\ ctor.max_scratchpad > 0) =>
              /\ {"sp_array", "sp_bufs"} \subseteq host.dma
              /\ Len(host.sp_array) = ctor.max_scratchpad
              /\ \A i \in 0..(ctor.max_scratchpad - 1) :
                    host.sp_array[i + 1] = RegionPhys("sp_bufs") + i * PAGE_SIZE
              /\ dcbaa[0] = RegionPhys("sp_array")
        /\ ctor.max_scratchpad = 0 =>
              /\ {"sp_array", "sp_bufs"} \cap host.dma = {}
              /\ host.sp_array = <<>>
              /\ dcbaa[0] = 0

\* a controller reporting bits 31 and 21 of HCSPARAMS2 (48 scratchpad
\* buffers) was constructed: the array has 48 entries and DCBAA[0] names it
C28_Witness ==
    /\ ctor.ret = "Ok"
    /\ regs.caps.hcs2 = <<0, 32768 + 32>>
    /\ ctor.max_scratchpad = 48
    /\ Len(host.sp_array) = 48
    /\ dcbaa[0] = RegionPhys("sp_array")

\* C23 as stated: with max_scratchpad > 0, once the controller exists the
\* scratchpad array and the buffer block are both allocated and both owned by
\* the controller, and DCBAA[0] points at the array.
C23_AsStated ==
    (ctor.ret = "Ok" /\ ctor.max_scratchpad > 0) =>
        /\ {"sp_array", "sp_bufs"} \subseteq host.dma
        /\ {"sp_array", "sp_bufs"} \subseteq ctor.owned
        /\ dcbaa[0] = RegionPhys("sp_array")

---------------------------------------------------------------------------
(* Claims about concurrent control transfers, checked under SpecCc *)

\* the slot that follows the slot at address a on the EP0 ring: the enqueue
\* after the last usable slot goes to the base
Ep0Next(a) ==
    IF (a - RingPhys(ep0_ring)) \div 16 + 1 = ep0_ring.size - 1
    THEN RingPhys(ep0_ring) ELSE a + 16

\* the TRB in the EP0 ring slot at address a is trb, whatever its cycle bit
Ep0Holds(a, trb) ==
    LET q == ep0_ring.slots[(a - RingPhys(ep0_ring)) \div 16]
    IN  /\ q.param = trb.param
        /\ q.status = trb.status
        /\ ClearBit0(q.control) = ClearBit0(trb.control)

StageOrders == {<<SETUP, STATUS>>, <<SETUP, DATA, STATUS>>}

\* C29: under concurrent control_transfer calls on one device, the Setup,
\* Data and Status TRBs of a call occupy consecutive EP0-ring slots in stage
\* order, no TRB of another call between them, and the doorbell of a call is
\* rung only after all of that call's TRBs are in the ring.
C29_Stages ==
    \A t \in Ctx :
        LET e == call[t].emitted
            a == call[t].ats
        IN  /\ Len(a) = Len(e)
            /\ \A i \in 1..(Len(a) - 1) : a[i + 1] = Ep0Next(a[i])
            /\ \E o \in StageOrders : \A i \in 1..Len(e) : i <= Len(o) /\ TrbType(e[i]) = o[i]
            /\ ep0_lock = t => \A i \in 1..Len(a) : Ep0Holds(a[i], e[i])
            /\ pc[t] \in {"setup", "data", "status"} => ep0_lock = t
            /\ (call[t].rang > 0 \/ pc[t] = "doorbell") => Types(e) \in StageOrders
            /\ call[t].rang <= 1

\* both contexts have a transfer in flight at once: the second call's TRBs
\* start in the slot after the first call's Status TRB
C29_Witness ==
    /\ pc[1] = "wait" /\ pc[2] = "wait"
    /\ Types(call[1].emitted) = <<SETUP, STATUS>>
    /\ Types(call[2].emitted) = <<SETUP, STATUS>>
    /\ call[2].ats[1] = Ep0Next(call[1].ats[2])
    /\ call[1].rang = 1 /\ call[2].rang = 1

\* C30 as stated: each control_transfer returns on a Transfer Event generated
\* by a TRB of that same call (the event's TRB pointer names one of the slots
\* the call enqueued on); no event left over from an earlier transfer on the
\* slot is taken as its completion.
C30_AsStated ==
    \A t \in Ctx :
        Completed(t) =>
            \E i \in 1..Len(call[t].ats) : call[t].evt.param = <<call[t].ats[i], 0>>

---------------------------------------------------------------------------
(* Claims about a transfer waiter beside a command, checked under SpecMix *)

\* the Command Completion events the wait loop of context t has discarded
DroppedCompletions(t) ==
    {call[t].dropped[i].param[1] :
        i \in {j \in 1..Len(call[t].dropped) :
                  TrbType(call[t].dropped[j]) = COMMAND_COMPLETION}}

\* the submit_command of context u is between its enqueue and its return
InCommand(u) == sc[u].pc \in {"bell", "wait", "erdp", "done"}

\* the completion of the command context u submitted was taken by a transfer
\* waiter
Stolen(u) == InCommand(u) /\ \E t \in Ctx : sc[u].at \in DroppedCompletions(t)

\* C24: when the wait of a control_transfer overlaps a submit_command of
\* another context, the Command Completion can be dequeued and discarded by
\* the transfer waiter, and that submit_command then never returns; a Command
\* Completion is consumed by a transfer waiter only while the submit_command
\* it belongs to is in progress (without overlap only wait_command consumes
\* Command Completions).
C24_LostCompletion ==
    /\ \A u \in Ctx :
          Stolen(u) => sc[u].pc \in {"wait", "erdp"} /\ sc[u].ret.kind = "none"
    /\ \A t \in Ctx : \A at \in DroppedCompletions(t) :
          \E u \in Ctx \ {t} : sc[u].pc \in {"wait", "erdp"} /\ sc[u].at = at
    /\ \A u \in Ctx :
          sc[u].pc = "done" => TrbType(sc[u].evt) = COMMAND_COMPLETION

\* the transfer waiter discarded the completion of the other context's
\* command and returned; the hardware has nothing left to post and
\* submit_command is still waiting
C24_Witness ==
    /\ \E u \in Ctx \ {Caller} : Stolen(u) /\ sc[u].pc = "wait"
    /\ pc[Caller] = "done"
    /\ Drained
    /\ ~hw_cmd.armed
    /\ ~hw_ep0.armed

\* C25: poll_event does not block; when the event ring is empty it returns
\* None and leaves dequeue_index, CCS and ERDP as they were; when it returns
\* an event, ERDP is then written with the address of the new dequeue slot
\* with bit 3 set; and under any interleaving of poll_event and wait_command
\* callers every value written to ERDP is the ring's dequeue pointer at the
\* moment of the write.
C25_PollEvent ==
    /\ [](\A t \in Ctx : pc[t] = "wait" => ENABLED CtDequeue(t))
    /\ [](\A t \in Ctx : pc[t] = "erdp" => ENABLED CtUpdateErdp(t))
    /\ [][ /\ (deq_log'.tick # deq_log.tick /\ ~deq_log'.ret.some) =>
                 /\ event_ring' = event_ring
                 /\ erdp' = erdp
                 /\ pc' = pc
           /\ \A t \in Ctx :
                 (pc[t] = "wait" /\ pc'[t] = "erdp") =>
                     /\ deq_log'.ret.some
                     /\ call'[t].evt = event_ring.slots[event_ring.dequeue_index]
                     /\ erdp' = erdp
           /\ \A t \in Ctx :
                 (pc[t] = "erdp" /\ pc'[t] # "erdp") =>
                     /\ erdp' = DequeuePtr(event_ring) + 8
                     /\ event_ring' = event_ring
           /\ erdp' # erdp => erdp' = DequeuePtr(event_ring') + 8
         ]_vars

\* the transfer waiter has taken one event and, before it wrote ERDP,
\* wait_command took the next: the dequeue pointer is two slots past ERDP
C25_Witness ==
    /\ pc[Caller] = "erdp"
    /\ \E u \in Ctx \ {Caller} : sc[u].pc = "erdp"
    /\ call[Caller].ptr # DequeuePtr(event_ring)
    /\ erdp = event_ring.phys

---------------------------------------------------------------------------
(* Claims about the drop of a device, checked under SpecLife *)

\* C22 as stated: destroying a device issues Disable Slot and then releases
\* every DMA region the device allocated (each configured endpoint ring, the
\* EP0 ring, the Input Context and the Device Context): the bridge frees made
\* for the device equal the bridge allocations made for it.
C22_AsStated ==
    (dn.pc = "dropped" /\ dn.ret = "Ok") =>
        /\ dn.steps[Len(dn.steps) - 1] = "disable_slot"
        /\ dn.live = {}
        /\ dn.frees = dn.allocs

---------------------------------------------------------------------------
(* Claims about the lengths of a control transfer, checked under SpecCtl *)

\* the Data Stage TRBs a call handed to Ring::enqueue
DataTrbs(t) == SelectSeq(call[t].emitted, LAMBDA trb : TrbType(trb) = DATA)

\* C31 as stated: for every control_transfer call the transfer length placed
\* in the Data Stage TRB never exceeds the size of the DMA data buffer
\* allocated for that call, and the byte count returned never exceeds the
\* length of the caller's buffer.
C31_AsStated ==
    \A t \in Ctx :
        /\ \A i \in 1..Len(DataTrbs(t)) :
              TransferLength(DataTrbs(t)[i]) <= call[t].data_len
        /\ (Completed(t) /\ call[t].ret.kind = "Ok" /\ call[t].data.some) =>
              call[t].ret.n <= Len(call[t].data.bytes)

---------------------------------------------------------------------------
(* Claims about the mutexes, checked under SpecLk *)

\* the context spins in lock() on a mutex somebody holds
Blocked(t) == At(t, "lock") /\ lk.owner[Instr(t).arg] # 0

\* what was done under one hold of the event_ring guard, the writes of the
\* other interrupter registers left out
Under(span) == SelectSeq(span, LAMBDA w : w # "mmio")

---------------------------------------------------------------------------
(* Claim about concurrent submit_command callers, checked under SpecDev *)

\* what the hardware reported for the command TRB at address `at`
DoneAt(at) == {d \in hw_cmd.done : d.at = at}

\* C33 as stated: when several contexts call submit_command concurrently,
\* each call returns the Command Completion event of the TRB it enqueued
\* itself (the event's TRB pointer is the address that call enqueued at), and
\* a CmdFail is reported to the caller whose command failed.
C33_AsStated ==
    \A t \in Ctx :
        sc[t].pc = "done" =>
            /\ sc[t].evt.param = <<sc[t].at, 0>>
            /\ sc[t].ret.kind = "CmdFail" =>
                  \E d \in DoneAt(sc[t].at) : d.code = sc[t].ret.code

---------------------------------------------------------------------------
(* Claim about concurrent configure_endpoint calls, checked under SpecCfg *)

\* the Configure Endpoint commands the hardware has executed
ConfigureDone == {d \in hw_cmd.done : d.ty = CONFIGURE_ENDPOINT}

\* context t is in submit_command for its Configure Endpoint TRB, enqueued
CfgEnqueued(t) == cf[t].pc = "submitted" /\ sc[t].pc \in {"bell", "wait", "erdp", "done"}

\* C34 as stated: when two contexts call configure_endpoint concurrently on
\* the same device for different endpoints, the Input Context the controller
\* reads for each Configure Endpoint command has add-flags = (1 << DCI) | 1
\* for the endpoint that command is configuring.
C34_AsStated ==
    \A t \in Ctx :
        CfgEnqueued(t) =>
            \A d \in ConfigureDone :
                d.at = sc[t].at => d.add = FlagsOr(OneShl(cf[t].dci), <<1, 0>>)

---------------------------------------------------------------------------
(* Claim about the failure paths of UsbDevice::new, checked under SpecDev *)

\* UsbDevice::new returned an error after enable_slot had returned a slot
NewFailedWithSlot == dn.pc = "done" /\ dn.ret # "Ok" /\ dn.slot_id # 0

\* C35 as stated: if UsbDevice::new fails after Enable Slot succeeded (a DMA
\* allocation fails or Address Device completes with a code other than 1),
\* then when the error is returned the slot has been disabled, the Device
\* Context, Input Context and EP0 ring allocated so far have been freed, and
\* DCBAA[slot_id] does not point at freed or abandoned memory.
C35_AsStated ==
    NewFailedWithSlot =>
        /\ \E i \in 1..Len(dn.steps) : dn.steps[i] = "disable_slot"
        /\ dn.live = {}
        /\ dn.frees = dn.allocs
        /\ dcbaa[dn.slot_id] = 0

---------------------------------------------------------------------------
(* Claim about the endpoint map after a failed configure_endpoint, checked *)
(* under SpecEp                                                            *)

\* configure_endpoint returned an error to context t
CfgFailed(t) == cf[t].pc = "done" /\ cf[t].ret \in {"OoRam", "CmdFail"}

\* C36 as stated: an endpoint ring is present in the device's endpoint map
\* only if a Configure Endpoint command for that DCI completed successfully:
\* after configure_endpoint returns an error the map has no ring for that
\* endpoint and queue_transfer on it returns InvalidEndpoint.
C36_AsStated ==
    \A t \in Ctx :
        CfgFailed(t) =>
            /\ ~ep_rings[cf[t].ring_idx].some
            /\ (qt[t].pc = "done" /\ qt[t].dci = cf[t].dci) => qt[t].ret = "InvEndpoint"

---------------------------------------------------------------------------
(* Claim about the last PORTSC write of reset_port, checked under SpecDev *)

PORTSC_PEC == 262144
PORTSC_WRC == 524288
PORTSC_OCC == 1048576
PORTSC_PLC == 4194304
PORTSC_CEC == 8388608

\* the bits of PORTSC that a write of 1 clears
Rw1cBits ==
    PORTSC_PED + PORTSC_CSC + PORTSC_PEC + PORTSC_WRC + PORTSC_OCC + PORTSC_PRC
    + PORTSC_PLC + PORTSC_CEC

\* C37 as stated: the final PORTSC write of reset_port clears only the Port
\* Reset Change bit: among the write-1-to-clear bits of PORTSC (PED and the
\* change bits CSC, PEC, WRC, OCC, PRC, PLC, CEC) the written value has only
\* PRC set, whatever value PORTSC held when it was read back.
C37_AsStated ==
    \A i \in PortWrites :
        i > 2 => BitAnd(port_log[i].val, Rw1cBits) = PORTSC_PRC

---------------------------------------------------------------------------
(* MscDevice::scsi_command on the addressed device, its bulk endpoints
   configured, beside the controller hardware *)

NextMsc ==
    \/ \E data \in MscData, direction_in \in BOOLEAN : MsBegin(data, direction_in)
    \/ \E data \in MscData : MsAllocFail(data)
    \/ MsPoll
    \/ \E code \in MscCodes, residual \in 0..MscMaxLen, status \in 0..1 :
          HwBulk(code, residual, status)

SpecMsc == Init /\ [][NextMsc]_vars

\* C38: a scsi_command with an IN data phase of L bytes that returns Ok with
\* the data phase's Transfer Event reporting residual r has copied L - r bytes
\* of the device's data into the caller's buffer and returns L - r
C38_AsStated ==
    LET m == drv.msc
        L == m.data_len
        r == TransferLength(m.evt)
    IN  (/\ m.pc = "done"
         /\ m.ret.kind = "Ok"
         /\ m.direction_in
         /\ L > 0)
        => /\ m.ret.n = L - r
           /\ \A i \in 1..L :
                 m.data.bytes[i] = IF i <= L - r THEN DeviceByte(i) ELSE CallerByte(i)

---------------------------------------------------------------------------
(* Two devices on one controller, each owner with a queued transfer, polling
   the one event ring in turn *)

NextWt ==
    \/ \E d \in Waiters : WtQueue(d)
    \/ \E d \in Waiters, code \in MscCodes : HwXfer(d, code)
    \/ \E d \in Waiters : WtPoll(d)

\* the owners keep polling and the controller completes what is queued
SpecWt ==
    /\ Init
    /\ [][NextWt]_vars
    /\ \A d \in Waiters : WF_vars(WtPoll(d))
    /\ \A d \in Waiters : WF_vars(\E code \in MscCodes : HwXfer(d, code))

\* a poller of device d took an event of another slot off the ring and dropped it
CrossDropped(d) ==
    \E i \in 1..Len(drv.wt[d].dropped) : SlotId(drv.wt[d].dropped[i]) # d

\* the poller of device d has taken a Transfer Event of its own slot: it
\* returned it, or (poll_keyboard on an error code) discarded it itself
Received(d) ==
    \/ drv.wt[d].pc = "done"
    \/ \E i \in 1..Len(drv.wt[d].dropped) : SlotId(drv.wt[d].dropped[i]) = d

\* C39: no poller consumes and drops a Transfer Event of the other slot, and
\* every waiter whose transfer the hardware has completed eventually receives
\* that completion
C39_AsStated ==
    /\ [](\A d \in Waiters : ~CrossDropped(d))
    /\ \A d \in Waiters :
          (drv.wt[d].pc = "wait" /\ drv.wt[d].posted > 0) ~> Received(d)

---------------------------------------------------------------------------
(* The blocking operations one after another on one controller: init, then
   UsbDevice::new (enable_slot, reset_port, Address Device), then
   control_transfer while another context submits a command; the contexts
   keep running, the hardware may or may not act *)

\* the capability registers of the one controller this specification boots
BlkCaps == [caplength |-> 32, hcs1 |-> 1 + Shl(1, 24), hcs2 |-> <<0, 0>>,
            dboff |-> 8192, rtsoff |-> 12288]

InitReturned == ctor.pc = "done" /\ ctor.ret = "Ok"
NewReturned  == dn.pc = "done" /\ dn.ret = "Ok"

\* the steps of XhciCtrl::new and init
BlkInitSteps ==
    \/ NewMapInit
    \/ NewMapInitFail
    \/ NewReadCaps
    \/ NewMapFull
    \/ NewMapFullFail
    \/ NewAllocOk
    \/ NewAllocFail
    \/ InitStop
    \/ InitHaltSeen
    \/ InitReset
    \/ InitResetSeen
    \/ InitReadySeen
    \/ InitConfigure
    \/ InitRun
    \/ InitRunning

\* the steps of UsbDevice::new, reset_port and submit_command inside it
BlkNewSteps ==
    /\ InitReturned
    /\ dn.pc # "done"
    /\ \/ DnEnableSlot(Caller)
       \/ DnSlot(Caller)
       \/ RpBegin
       \/ RpResetSeen
       \/ RpClearChange
       \/ DnSpeed
       \/ DnAllocOk
       \/ DnAllocFail
       \/ DnSetContext
       \/ DnAddress(Caller)
       \/ DnAddressed(Caller)
       \/ ScLock(Caller)
       \/ ScEnqueue(Caller)
       \/ ScDoorbell(Caller)
       \/ WcDequeue(Caller)
       \/ WcUpdateErdp(Caller)

\* the steps of control_transfer after its entry
BlkTransferSteps ==
    \/ CtNoBuffer(Caller)
    \/ CtAllocOk(Caller)
    \/ CtSetup(Caller)
    \/ CtData(Caller)
    \/ CtStatus(Caller)
    \/ CtDoorbell(Caller)
    \/ CtDequeue(Caller)
    \/ CtUpdateErdp(Caller)

\* the steps of the other context's submit_command after its entry
BlkCommandSteps ==
    \E t \in Ctx \ {Caller} :
        \/ ScLock(t)
        \/ ScEnqueue(t)
        \/ ScDoorbell(t)
        \/ WcDequeue(t)
        \/ WcUpdateErdp(t)
        \/ SubmitReturn(t)

\* the controller hardware
BlkHardware ==
    \/ \E cmd \in {0, USBCMD_RUN} : HwFirmware(BlkCaps, cmd)
    \/ HwHalt
    \/ HwResetDone
    \/ HwReady
    \/ HwStart
    \/ InitReturned /\ \E code \in CmdCodes : HwCommand(code)
    \/ HwPortReset(SPEED_HIGH)
    \/ HwEp0Setup
    \/ HwEp0Data(SUCCESS, 0)
    \/ HwEp0Status(SUCCESS)

NextBlk ==
    \/ BlkInitSteps
    \/ BlkNewSteps
    \/ NewReturned /\ \E a \in CcArgs : dma.calls < MaxCalls /\ CtLock(Caller, a.setup, a.data)
    \/ NewReturned /\ BlkTransferSteps
    \/ NewReturned /\ \E t \in Ctx \ {Caller} : Submit(t, DisableSlotTrb(2))
    \/ NewReturned /\ BlkCommandSteps
    \/ BlkHardware

\* the turns of the wait loops of the context that runs init, UsbDevice::new
\* and control_transfer
BlkCallerPolls ==
    \/ InitHaltSeen
    \/ InitResetSeen
    \/ InitReadySeen
    \/ InitRunning
    \/ InitReturned /\ dn.pc # "done" /\ RpResetSeen
    \/ InitReturned /\ dn.pc # "done" /\ WcDequeue(Caller)
    \/ InitReturned /\ dn.pc # "done" /\ WcUpdateErdp(Caller)
    \/ NewReturned /\ CtDequeue(Caller)
    \/ NewReturned /\ CtUpdateErdp(Caller)

\* the turns of wait_command's loop in the other context
BlkOtherPolls ==
    NewReturned /\ \E t \in Ctx \ {Caller} : WcDequeue(t) \/ WcUpdateErdp(t)

\* a context that is inside a wait loop keeps polling; nothing is assumed of
\* the hardware, nor of a context outside a wait
SpecBlk ==
    /\ Init
    /\ [][NextBlk]_vars
    /\ WF_vars(BlkCallerPolls)
    /\ WF_vars(BlkOtherPolls)

\* the events the hardware has posted and nobody has dequeued yet
PendingEvents ==
    LET d == event_ring.dequeue_index
        h == hw_evt.index
    IN  {event_ring.slots[i] :
            i \in {j \in 0..(event_ring.size - 1) :
                      IF d <= h THEN d <= j /\ j < h ELSE j >= d \/ j < h}}

CompletionPending == \E e \in PendingEvents : TrbType(e) = COMMAND_COMPLETION

TransferPending ==
    \E e \in PendingEvents : TrbType(e) = TRANSFER_EVENT /\ SlotId(e) = Device.slot_id

InWaitCommand(t) == sc[t].pc \in {"wait", "erdp"}
InTransferWait(t) == pc[t] \in {"wait", "erdp"}

\* a wait loop is left only on a read that shows the awaited state: HCH set,
\* HCRST clear, CNR clear, HCH clear, PR clear, a Command Completion event, a
\* Transfer Event of the caller's slot
LeftOnAwaitedState ==
    /\ (ctor.pc = "halt_wait" /\ ctor'.pc # "halt_wait")
          => BitAnd(regs.usbsts, USBSTS_HCH) # 0
    /\ (ctor.pc = "reset_wait" /\ ctor'.pc # "reset_wait")
          => BitAnd(regs.usbcmd, USBCMD_HCRST) = 0
    /\ (ctor.pc = "cnr_wait" /\ ctor'.pc # "cnr_wait")
          => BitAnd(regs.usbsts, USBSTS_CNR) = 0
    /\ (ctor.pc = "run_wait" /\ ctor'.pc # "run_wait")
          => BitAnd(regs.usbsts, USBSTS_HCH) = 0
    /\ (dn.pc = "reset_wait" /\ dn'.pc # "reset_wait")
          => BitAnd(portsc, PORTSC_PR) = 0
    /\ \A t \in Ctx :
          (InWaitCommand(t) /\ ~InWaitCommand(t)')
             => TrbType(sc[t].evt) = COMMAND_COMPLETION
    /\ \A t \in Ctx :
          (InTransferWait(t) /\ ~InTransferWait(t)')
             => /\ TrbType(call[t].evt) = TRANSFER_EVENT
                /\ SlotId(call[t].evt) = Device.slot_id

\* no operation has returned Timeout
NoTimeout ==
    /\ ctor.ret # "Timeout"
    /\ dn.ret # "Timeout"
    /\ \A t \in Ctx : sc[t].ret.kind # "Timeout" /\ call[t].ret.kind # "Timeout"

\* a register wait of init or reset_port whose awaited state the hardware shows
RegisterShown ==
    \/ ctor.pc = "halt_wait" /\ BitAnd(regs.usbsts, USBSTS_HCH) # 0
    \/ ctor.pc = "reset_wait" /\ BitAnd(regs.usbcmd, USBCMD_HCRST) = 0
    \/ ctor.pc = "cnr_wait" /\ BitAnd(regs.usbsts, USBSTS_CNR) = 0
    \/ ctor.pc = "run_wait" /\ BitAnd(regs.usbsts, USBSTS_HCH) = 0
    \/ dn.pc = "reset_wait" /\ BitAnd(portsc, PORTSC_PR) = 0

\* a wait whose awaited state the hardware has produced: the register shows
\* it, the controller has executed every command rung (and so posted the
\* waiter's Command Completion), the endpoint has executed every TRB rung
\* (and so posted the waiter's Transfer Event)
Produced ==
    \/ RegisterShown
    \/ \E t \in Ctx : InWaitCommand(t) /\ ~hw_cmd.armed
    \/ \E t \in Ctx : InTransferWait(t) /\ ~hw_ep0.armed

\* a wait whose awaited state is there for it to read: the register shows it,
\* the awaited event is in the event ring
Shown ==
    \/ RegisterShown
    \/ \E t \in Ctx : InWaitCommand(t) /\ CompletionPending
    \/ \E t \in Ctx : InTransferWait(t) /\ TransferPending

=============================================================================
